---- MODULE Spec2Model ----
(***************************************************************************)
(* A model of the file tools of toy-agent: the unified-diff parser, the    *)
(* hunk applier and the patch orchestrator of toy_agent/tools/apply_patch  *)
(* and the multi-edit engine of toy_agent/tools/file_ops, and of the loop  *)
(* of toy_agent/agent that calls the tools.                                *)
(*                                                                         *)
(* Text is a sequence of one-character strings, so that the code's string  *)
(* operations (split, join, startswith, strip, slicing, substring search,  *)
(* regular-expression substitution) are computed and not assumed.  A file  *)
(* system is a function from absolute paths to file records together with  *)
(* a set of existing directories.                                          *)
(***************************************************************************)
EXTENDS Integers, Sequences, FiniteSets, TLC

VARIABLES
    op,     \* the operation that ran last ("idle" before any call); where a call
            \* is taken step by step, the loop or the phase it is in
    arg,    \* its arguments; of each run of the agent, what its last LLM call
            \* was given
    ret,    \* its return value; where a call is taken step by step, its local
            \* variables (of each of two concurrent calls: its position, the
            \* bytes its read() calls returned so far, and what it computed)
            \* and, at the end, its result
    files,  \* the file system: absolute path -> file record
    dirs,   \* the directories that exist
    env,    \* what the file system refuses: directories and files it will not
            \* create or open; for the agent, its max_steps and the names its
            \* tool registry holds
    pre,    \* files and dirs as they were when the operation was called; for
            \* the agent, the number of calls made on it so far
    log     \* the file-system calls the operation made, in order; for the agent
            \* loop, the history of messages

vars == <<op, arg, ret, files, dirs, env, pre, log>>

NL == "\n"
BS == "\\"
TAB == "\t"

-----------------------------------------------------------------------------
(* Python sequence and string primitives *)

Min(a, b) == IF a < b THEN a ELSE b
Max(a, b) == IF a > b THEN a ELSE b

\* A slice bound as Python normalises it: negative counts from the end, then clamped.
PyNorm(i, n) == IF i < 0 THEN Max(i + n, 0) ELSE Min(i, n)

\* s[lo:hi]
PySlice(s, lo, hi) ==
    LET a == PyNorm(lo, Len(s))
        b == PyNorm(hi, Len(s))
    IN  IF a >= b THEN <<>> ELSE SubSeq(s, a + 1, b)

\* s[lo:]
PyFrom(s, lo) == PySlice(s, lo, Len(s))

\* s[:hi]
PyTo(s, hi) == PySlice(s, 0, hi)

\* s[i] for -len(s) <= i < len(s)
PyIndex(s, i) == IF i < 0 THEN s[Len(s) + i + 1] ELSE s[i + 1]

\* s.startswith(p)
StartsWith(s, p) == Len(s) >= Len(p) /\ SubSeq(s, 1, Len(p)) = p

\* s.endswith(p)
EndsWith(s, p) == Len(s) >= Len(p) /\ SubSeq(s, Len(s) - Len(p) + 1, Len(s)) = p

\* s.find(sep, k - 1) + 1 for a one-character sep: the first position from k
\* (1-based) that holds sep, 0 when there is none.
FindChar(s, sep, k) ==
    IF \E j \in k..Len(s) : s[j] = sep
    THEN CHOOSE j \in k..Len(s) : s[j] = sep /\ \A m \in k..(j - 1) : s[m] # sep
    ELSE 0

\* s.split(sep) for a one-character sep: k separators give k + 1 pieces.
RECURSIVE SplitFrom(_, _, _)
SplitFrom(s, sep, start) ==
    LET at == FindChar(s, sep, start)
    IN  IF at = 0 THEN <<SubSeq(s, start, Len(s))>>
        ELSE <<SubSeq(s, start, at - 1)>> \o SplitFrom(s, sep, at + 1)

Split(s, sep) == SplitFrom(s, sep, 1)

\* sep.join(pieces)
RECURSIVE Join(_, _)
Join(pieces, sep) ==
    IF pieces = <<>> THEN <<>>
    ELSE IF Len(pieces) = 1 THEN pieces[1]
    ELSE pieces[1] \o <<sep>> \o Join(Tail(pieces), sep)

-----------------------------------------------------------------------------
(* The hunk applier: _apply_hunk_to_content *)

\* A hunk line is <<tag, text>> with tag " " (context), "-" (delete) or "+" (insert).
IsOld(hl) == hl[1] = " " \/ hl[1] = "-"

\* sum(1 for op, _ in hunk_lines if op in (' ', '-'))
MatchCount(hunk_lines) == Cardinality({k \in 1..Len(hunk_lines) : IsOld(hunk_lines[k])})

\* The lines the applier works on: content.split('\n'), less a trailing empty
\* piece when the content is non-empty and does not end in a newline.
DropPhantomLine(lines) ==
    IF lines # <<>> /\ lines[Len(lines)] = <<>> THEN PyTo(lines, -1) ELSE lines

\* The lines in a variant that discards a trailing empty piece of any content.
HunkFileLinesTrimmed(content) == DropPhantomLine(Split(content, NL))

HunkFileLines(content) ==
    IF content # <<>> /\ ~EndsWith(content, <<NL>>)
    THEN DropPhantomLine(Split(content, NL))
    ELSE Split(content, NL)

\* The verification loop: every context or delete line equals the file line under
\* the cursor (a cursor past the end reads as the empty line).
RECURSIVE VerifyHunk(_, _, _)
VerifyHunk(lines, hunk_lines, line_idx) ==
    IF hunk_lines = <<>> THEN TRUE
    ELSE IF IsOld(Head(hunk_lines))
    THEN LET actual_line == IF line_idx < Len(lines) THEN PyIndex(lines, line_idx) ELSE <<>>
         IN  IF actual_line # Head(hunk_lines)[2] THEN FALSE
             ELSE VerifyHunk(lines, Tail(hunk_lines), line_idx + 1)
    ELSE VerifyHunk(lines, Tail(hunk_lines), line_idx)

\* The replay loop: context copies the file line, delete skips it, insert emits its text.
RECURSIVE ReplayHunk(_, _, _, _)
ReplayHunk(lines, hunk_lines, line_idx, new_lines) ==
    IF hunk_lines = <<>> THEN [new_lines |-> new_lines, line_idx |-> line_idx]
    ELSE LET tag == Head(hunk_lines)[1]
             text == Head(hunk_lines)[2]
         IN  IF tag = " "
             THEN ReplayHunk(lines, Tail(hunk_lines), line_idx + 1,
                             IF line_idx < Len(lines)
                             THEN Append(new_lines, PyIndex(lines, line_idx))
                             ELSE new_lines)
             ELSE IF tag = "-"
             THEN ReplayHunk(lines, Tail(hunk_lines), line_idx + 1, new_lines)
             ELSE IF tag = "+"
             THEN ReplayHunk(lines, Tail(hunk_lines), line_idx, Append(new_lines, text))
             ELSE ReplayHunk(lines, Tail(hunk_lines), line_idx, new_lines)

\* What a failed hunk returns with the content: a variant that hands back the
\* lines rebuilt so far.
ApplyHunkFailurePartial(content, lines, hunk_lines, old_start) ==
    [content |-> Join(ReplayHunk(lines, hunk_lines, old_start, PyTo(lines, old_start)).new_lines, NL),
     success |-> FALSE]

\* return content, False
ApplyHunkFailure(content, lines, hunk_lines, old_start) ==
    [content |-> content, success |-> FALSE]

\* The rebuilt lines, the lines after the hunk, joined.
ApplyHunkSuccess(lines, replayed) ==
    [content |-> Join(replayed.new_lines \o PyFrom(lines, replayed.line_idx), NL),
     success |-> TRUE]

\* The body of _apply_hunk_to_content once the content is split into lines.
ApplyHunkToLines(content, lines, old_start, hunk_lines) ==
    IF old_start + MatchCount(hunk_lines) > Len(lines)
    THEN ApplyHunkFailure(content, lines, hunk_lines, old_start)
    ELSE IF ~VerifyHunk(lines, hunk_lines, old_start)
    THEN ApplyHunkFailure(content, lines, hunk_lines, old_start)
    ELSE ApplyHunkSuccess(lines, ReplayHunk(lines, hunk_lines, old_start, PyTo(lines, old_start)))

ApplyHunkToContent(content, hunk) ==
    ApplyHunkToLines(content, HunkFileLines(content), hunk.old_start - 1, hunk.lines)

-----------------------------------------------------------------------------
(* The parser: _parse_unified_diff *)

\* The characters str.strip() takes off, of the code points below 256: the
\* ASCII white space, the four separators 0x1c to 0x1f, NEL and the no-break
\* space.  (A control character is written by its name: "VT" is 0x0b.)
Whitespace == {" ", TAB, NL, "\r", "\f", "VT", "FS", "GS", "RS", "US", "NEL", "NBSP"}

RECURSIVE LStrip(_, _)
LStrip(s, chars) == IF s # <<>> /\ Head(s) \in chars THEN LStrip(Tail(s), chars) ELSE s

RECURSIVE RStrip(_, _)
RStrip(s, chars) ==
    IF s # <<>> /\ s[Len(s)] \in chars THEN RStrip(SubSeq(s, 1, Len(s) - 1), chars) ELSE s

\* s.strip()
Strip(s) == LStrip(RStrip(s, Whitespace), Whitespace)

Digits == {"0", "1", "2", "3", "4", "5", "6", "7", "8", "9"}

DigitValue(c) ==
    CASE c = "0" -> 0 [] c = "1" -> 1 [] c = "2" -> 2 [] c = "3" -> 3 [] c = "4" -> 4
      [] c = "5" -> 5 [] c = "6" -> 6 [] c = "7" -> 7 [] c = "8" -> 8 [] c = "9" -> 9

\* The most digits int() converts (sys.get_int_max_str_digits() of Python
\* 3.11 and later as it starts).
IntMaxStrDigits == 4300

\* int(s) for a string of decimal digits raises ValueError: it has more than
\* IntMaxStrDigits digits, the leading zeros counted.
IntRaises(s) == Len(s) > IntMaxStrDigits

\* The value of int(s) for a string of decimal digits that int() converts.
RECURSIVE ParseInt(_, _)
ParseInt(s, acc) == IF s = <<>> THEN acc ELSE ParseInt(Tail(s), 10 * acc + DigitValue(Head(s)))

\* The longest run of digits s starts with: what \d+ takes.
DigitRun(s) ==
    IF \E k \in 1..Len(s) : s[k] \notin Digits
    THEN SubSeq(s, 1, (CHOOSE k \in 1..Len(s) :
                          s[k] \notin Digits /\ \A j \in 1..(k - 1) : s[j] \in Digits) - 1)
    ELSE s

\* (\d+)(?:,(\d+))? at the start of s: the two groups (the second <<>> when it
\* takes no part) and what is left of s.
MatchRange(s) ==
    LET first == DigitRun(s)
        rest == PyFrom(s, Len(first))
        second == IF rest # <<>> /\ Head(rest) = "," THEN DigitRun(Tail(rest)) ELSE <<>>
    IN  [ok |-> first # <<>>,
         first |-> first,
         second |-> second,
         rest |-> IF second # <<>> THEN PyFrom(rest, 1 + Len(second)) ELSE rest]

NoMatch == [ok |-> FALSE]

\* Group 2 or 4 of the hunk header: the count, 1 when the group took no part.
CountOrOne(digits) == IF digits # <<>> THEN ParseInt(digits, 0) ELSE 1

\* The header matches: the four numbers, or ValueError from int() of a group.
HunkMatchNew(old, new) ==
    IF new.ok /\ StartsWith(new.rest, <<" ", "@", "@">>)
    THEN IF IntRaises(old.first) \/ IntRaises(old.second)
            \/ IntRaises(new.first) \/ IntRaises(new.second)
    THEN [ok |-> TRUE, raised |-> TRUE]
    ELSE [ok |-> TRUE,
          raised |-> FALSE,
          old_start |-> ParseInt(old.first, 0),
          old_count |-> CountOrOne(old.second),
          new_start |-> ParseInt(new.first, 0),
          new_count |-> CountOrOne(new.second)]
    ELSE NoMatch

HunkMatchOld(old) ==
    IF old.ok /\ StartsWith(old.rest, <<" ", "+">>)
    THEN HunkMatchNew(old, MatchRange(PyFrom(old.rest, 2)))
    ELSE NoMatch

\* re.match(r'@@ -(\d+)(?:,(\d+))? \+(\d+)(?:,(\d+))? @@', line) and int() of
\* its groups.
HunkMatch(line) ==
    IF StartsWith(line, <<"@", "@", " ", "-">>)
    THEN HunkMatchOld(MatchRange(PyFrom(line, 4)))
    ELSE NoMatch

FileHeader == <<"-", "-", "-", " ">>
NewFileHeader == <<"+", "+", "+", " ">>
HunkHeader == <<"@", "@", " ">>
DevNull == <<"/", "d", "e", "v", "/", "n", "u", "l", "l">>

\* A header path without its a/ or b/ prefix.
Unprefixed(path, prefix) == IF StartsWith(path, prefix) THEN PyFrom(path, 2) ELSE path

\* The path of a '--- ' or '+++ ' line: the text after the marker, stripped,
\* without its a/ or b/ prefix, cut at the first tab.
HeaderPath(line, prefix) == Split(Unprefixed(Strip(PyFrom(line, 4)), prefix), TAB)[1]

\* The innermost loop: the body of one hunk, from line index i (0-based).
RECURSIVE ParseHunkBody(_, _, _)

\* One line of a hunk body.
ParseHunkLine(lines, i, hunk_lines, hunk_line) ==
    IF StartsWith(hunk_line, FileHeader) \/ StartsWith(hunk_line, HunkHeader)
    THEN [i |-> i, lines |-> hunk_lines]
    ELSE IF StartsWith(hunk_line, <<BS>>)
    THEN ParseHunkBody(lines, i + 1, hunk_lines)
    ELSE IF StartsWith(hunk_line, <<" ">>) \/ StartsWith(hunk_line, <<"-">>)
            \/ StartsWith(hunk_line, <<"+">>)
    THEN ParseHunkBody(lines, i + 1, Append(hunk_lines, <<hunk_line[1], PyFrom(hunk_line, 1)>>))
    ELSE IF hunk_line = <<>>
    THEN ParseHunkBody(lines, i + 1, Append(hunk_lines, <<" ", <<>>>>))
    ELSE [i |-> i, lines |-> hunk_lines]

ParseHunkBody(lines, i, hunk_lines) ==
    IF i >= Len(lines) THEN [i |-> i, lines |-> hunk_lines]
    ELSE ParseHunkLine(lines, i, hunk_lines, lines[i + 1])

\* The middle loop: the hunks of one file, from line index i.
RECURSIVE ParseHunks(_, _, _)

\* hunks.append({...}) after the body of a hunk, and on to the line that ended it.
ParseHunkDone(lines, hunks, hunk_match, body) ==
    ParseHunks(lines, body.i,
               Append(hunks, [old_start |-> hunk_match.old_start,
                              old_count |-> hunk_match.old_count,
                              new_start |-> hunk_match.new_start,
                              new_count |-> hunk_match.new_count,
                              lines |-> body.lines]))

\* A line that starts with '@@ ': a hunk when the header matches, skipped when
\* not; ValueError out of the function when int() raises.
ParseHunkHeader(lines, i, hunks, hunk_match) ==
    IF ~hunk_match.ok THEN ParseHunks(lines, i + 1, hunks)
    ELSE IF hunk_match.raised THEN [i |-> i, hunks |-> hunks, raised |-> TRUE]
    ELSE ParseHunkDone(lines, hunks, hunk_match, ParseHunkBody(lines, i + 1, <<>>))

ParseHunks(lines, i, hunks) ==
    IF i >= Len(lines) THEN [i |-> i, hunks |-> hunks, raised |-> FALSE]
    ELSE IF StartsWith(lines[i + 1], HunkHeader)
    THEN ParseHunkHeader(lines, i, hunks, HunkMatch(lines[i + 1]))
    ELSE IF StartsWith(lines[i + 1], FileHeader)
    THEN [i |-> i, hunks |-> hunks, raised |-> FALSE]
    ELSE IF i + 1 >= Len(lines) \/ StartsWith(lines[i + 2], FileHeader)
    THEN [i |-> i + 1, hunks |-> hunks, raised |-> FALSE]
    ELSE ParseHunks(lines, i + 1, hunks)

\* The outer loop: the file blocks, from line index i.
RECURSIVE ParseFiles(_, _, _)

\* What stands for the list of file changes when _parse_unified_diff raises
\* ValueError instead of returning one.
ParseRaised == <<[raised |-> "ValueError"]>>

\* if hunks: patches.append({...}), and on to the line that ended the block;
\* nothing of it when the loop over the hunks raised.
ParseFileDone(lines, patches, file_path, parsed) ==
    IF parsed.raised THEN ParseRaised
    ELSE
    ParseFiles(lines, parsed.i,
               IF parsed.hunks # <<>>
               THEN Append(patches, [file_path |-> file_path, hunks |-> parsed.hunks])
               ELSE patches)

\* The block of a '--- ' line at index i that a '+++ ' line follows.
ParseFileBlock(lines, i, patches, file_path) ==
    IF file_path = DevNull THEN ParseFiles(lines, i + 2, patches)
    ELSE ParseFileDone(lines, patches, file_path, ParseHunks(lines, i + 2, <<>>))

\* The target path in a variant that is the new-side path whatever it is.
TargetPathNewSide(old_file, new_file) == new_file

\* file_path = new_file if new_file != '/dev/null' else old_file
TargetPath(old_file, new_file) == IF new_file # DevNull THEN new_file ELSE old_file

ParseFiles(lines, i, patches) ==
    IF i >= Len(lines) THEN patches
    ELSE IF StartsWith(lines[i + 1], FileHeader)
    THEN IF i + 1 >= Len(lines) \/ ~StartsWith(lines[i + 2], NewFileHeader)
         THEN ParseFiles(lines, i + 2, patches)
         ELSE ParseFileBlock(lines, i, patches,
                             TargetPath(HeaderPath(lines[i + 1], <<"a", "/">>),
                                        HeaderPath(lines[i + 2], <<"b", "/">>)))
    ELSE ParseFiles(lines, i + 1, patches)

\* _parse_unified_diff(patch_content): the file changes, or ParseRaised.
ParseUnifiedDiff(patch_content) == ParseFiles(Split(patch_content, NL), 0, <<>>)

-----------------------------------------------------------------------------
(* The file system the tools work on *)

\* The working directory of the process.
Cwd == <<"/", "w">>

Root == <<"/">>

\* A byte no text has; a file holding it in its first 1024 bytes counts as binary.
NUL == "NUL"

TextFile(data) == [kind |-> "text", data |-> data]

\* A file whose bytes are not UTF-8: reading it as text raises UnicodeDecodeError.
UndecodableFile == [kind |-> "undecodable", data |-> <<>>]

\* os.path.isabs
IsAbs(path) == StartsWith(path, <<"/">>)

\* os.path.join(a, b)
PathJoin(a, b) ==
    IF IsAbs(b) THEN b
    ELSE IF a = <<>> \/ EndsWith(a, <<"/">>) THEN a \o b
    ELSE a \o <<"/">> \o b

\* os.path.abspath, for paths without '.', '..' and doubled separators: the
\* path joined to the working directory, trailing separators dropped.
Abspath(path) ==
    LET joined == PathJoin(Cwd, path)
        trimmed == RStrip(joined, {"/"})
    IN  IF trimmed = <<>> THEN Root ELSE trimmed

\* if not os.path.isabs(file_path): file_path = os.path.abspath(file_path)
Absolute(path) == IF ~IsAbs(path) THEN Abspath(path) ELSE path

\* os.path.dirname
Dirname(path) ==
    LET at == {k \in 1..Len(path) : path[k] = "/"}
    IN  IF at = {} THEN <<>>
        ELSE LET last == CHOOSE k \in at : \A m \in at : m <= k
                 head == SubSeq(path, 1, last)
                 trimmed == RStrip(head, {"/"})
             IN  IF trimmed = <<>> THEN head ELSE trimmed

\* A directory and the directories above it.
RECURSIVE DirChain(_)
DirChain(dir) ==
    IF dir = <<>> \/ Dirname(dir) = dir THEN {dir} \ {<<>>}
    ELSE {dir} \cup DirChain(Dirname(dir))

\* os.path.exists on a state st = [files, dirs, log]
PathExists(st, path) == path \in DOMAIN st.files \/ path \in st.dirs

\* os.makedirs(dir, exist_ok=True): the missing directories of the chain are
\* made from the top down; it raises at the first one that cannot be created,
\* or that a file stands in the way of, and the ones made before it stay.
MakeDirs(st, e, dir) ==
    LET missing == DirChain(dir) \ st.dirs
        failing == {d \in missing : d \in e.blocked \/ d \in DOMAIN st.files}
        made == {d \in missing : \A f \in failing : Len(d) < Len(f)}
    IN  IF failing # {}
        THEN [ok |-> FALSE,
              st |-> [st EXCEPT !.dirs = @ \cup made,
                                !.log = Append(@, <<"makedirs_failed", dir>>)]]
        ELSE [ok |-> TRUE,
              st |-> [st EXCEPT !.dirs = @ \cup missing,
                                !.log = Append(@, <<"makedirs", dir>>)]]

\* What a file opened in text mode with the default newline=None gives for
\* its characters: "\r\n" and a lone "\r" arrive as "\n".
RECURSIVE UniversalNewlines(_)
UniversalNewlines(data) ==
    IF data = <<>> THEN <<>>
    ELSE IF Head(data) = "\r"
    THEN <<NL>> \o UniversalNewlines(IF Len(data) >= 2 /\ data[2] = NL
                                      THEN PyFrom(data, 2) ELSE Tail(data))
    ELSE <<Head(data)>> \o UniversalNewlines(Tail(data))

\* open(path, 'r', encoding='utf-8').read()
ReadText(st, path) ==
    IF path \notin DOMAIN st.files THEN [error |-> "os"]
    ELSE IF st.files[path].kind = "undecodable" THEN [error |-> "decode"]
    ELSE [error |-> "none", data |-> UniversalNewlines(st.files[path].data)]

\* open(path, 'w', encoding='utf-8') and f.write(data): raises when the file
\* system refuses the path, it is a directory or its directory does not exist.
\* (On writing, "\n" becomes os.linesep, which is "\n" here.)
WriteText(st, e, path, data) ==
    IF path \in e.readonly \/ path \in st.dirs \/ Dirname(path) \notin st.dirs
    THEN [ok |-> FALSE, st |-> [st EXCEPT !.log = Append(@, <<"write_failed", path>>)]]
    ELSE [ok |-> TRUE,
          st |-> [st EXCEPT !.files = (path :> TextFile(data)) @@ @,
                            !.log = Append(@, <<"write", path, data>>)]]

-----------------------------------------------------------------------------
(* The patch orchestrator: _apply_patch_to_file and apply_patch *)

\* The text of a new file: every insert line followed by a newline, over all hunks.
RECURSIVE InsertedText(_)
InsertedText(hunk_lines) ==
    IF hunk_lines = <<>> THEN <<>>
    ELSE (IF Head(hunk_lines)[1] = "+" THEN Head(hunk_lines)[2] \o <<NL>> ELSE <<>>)
         \o InsertedText(Tail(hunk_lines))

RECURSIVE NewFileContent(_)
NewFileContent(hunks) ==
    IF hunks = <<>> THEN <<>>
    ELSE InsertedText(Head(hunks).lines) \o NewFileContent(Tail(hunks))

\* The loop over the hunks of a file: each hunk is applied to the text the
\* last successful one left.
RECURSIVE ApplyHunks(_, _, _, _, _)

\* One hunk tried, in a variant that leaves the loop at the first hunk that fails.
HunkTriedUntilFailure(modified_content, hunks, i, applied_hunks, failed_hunks, r) ==
    IF r.success
    THEN ApplyHunks(r.content, hunks, i + 1, Append(applied_hunks, i), failed_hunks)
    ELSE [content |-> modified_content, applied_hunks |-> applied_hunks,
          failed_hunks |-> Append(failed_hunks, i)]

\* One hunk tried: its text and its number kept when it applied, its number
\* noted when it failed.
HunkTried(modified_content, hunks, i, applied_hunks, failed_hunks, r) ==
    IF r.success
    THEN ApplyHunks(r.content, hunks, i + 1, Append(applied_hunks, i), failed_hunks)
    ELSE ApplyHunks(modified_content, hunks, i + 1, applied_hunks, Append(failed_hunks, i))

ApplyHunks(modified_content, hunks, i, applied_hunks, failed_hunks) ==
    IF i > Len(hunks)
    THEN [content |-> modified_content, applied_hunks |-> applied_hunks,
          failed_hunks |-> failed_hunks]
    ELSE HunkTried(modified_content, hunks, i, applied_hunks, failed_hunks,
                   ApplyHunkToContent(modified_content, hunks[i]))

\* What _apply_patch_to_file returns: a dict with the keys of the branch that
\* returns it (a record with these fields), text standing for the value of
\* 'message' or of 'error'.
\* A failure without hunk lists: {'success': False, 'error': ...}
FileFailure(text) == [success |-> FALSE, text |-> text]

\* {'success': True, 'message': ..., 'file_path': file_path}
FileCreated(file_path) == [success |-> TRUE, text |-> "created", file_path |-> file_path]

\* {'success': True, 'message': ..., 'file_path': file_path,
\*  'applied_hunks': len(applied_hunks)}: the count, and no key failed_hunks
FileApplied(file_path, applied_hunks) ==
    [success |-> TRUE, text |-> "applied", file_path |-> file_path,
     applied_hunks |-> Len(applied_hunks)]

\* {'success': False, 'error': ..., 'applied_hunks': applied_hunks,
\*  'failed_hunks': failed_hunks}: the two lists
HunksFailed(applied_hunks, failed_hunks) ==
    [success |-> FALSE, text |-> "hunks_failed",
     applied_hunks |-> applied_hunks, failed_hunks |-> failed_hunks]

\* The end of the creation branch: the outcome of the write.
CreateWritten(file_path, written) ==
    IF written.ok
    THEN [result |-> FileCreated(file_path), st |-> written.st]
    ELSE [result |-> FileFailure("write_error"), st |-> written.st]

\* The text written to a new file: the inserted lines without the newlines at the end.
CreatedText(hunks) == RStrip(NewFileContent(hunks), {NL})

\* The creation branch once the parent directory is there, or could not be made.
CreateInDir(file_path, hunks, made, e) ==
    IF ~made.ok
    THEN [result |-> FileFailure("makedirs_error"), st |-> made.st]
    ELSE CreateWritten(file_path, WriteText(made.st, e, file_path, CreatedText(hunks)))

\* if parent_dir and not os.path.exists(parent_dir): os.makedirs(parent_dir, exist_ok=True)
EnsureParent(st, e, parent_dir) ==
    IF parent_dir # <<>> /\ ~PathExists(st, parent_dir)
    THEN MakeDirs(st, e, parent_dir)
    ELSE [ok |-> TRUE, st |-> st]

\* The branch of _apply_patch_to_file for a path that does not exist.
CreateFromPatch(file_path, hunks, st, e) ==
    CreateInDir(file_path, hunks, EnsureParent(st, e, Dirname(file_path)), e)

\* The end of the branch for an existing file: the outcome of the write.
PatchWritten(file_path, applied, written) ==
    IF written.ok
    THEN [result |-> FileApplied(file_path, applied.applied_hunks), st |-> written.st]
    ELSE [result |-> FileFailure("write_error"), st |-> written.st]

\* A file some hunk of which failed, in a variant that writes what the other hunks made of it.
PatchFailedWritePartial(file_path, applied, st, e) ==
    [result |-> HunksFailed(applied.applied_hunks, applied.failed_hunks),
     st |-> WriteText(st, e, file_path, applied.content).st]

\* if failed_hunks: return {'success': False, ...}, the file not being written.
PatchFailed(file_path, applied, st, e) ==
    [result |-> HunksFailed(applied.applied_hunks, applied.failed_hunks),
     st |-> st]

\* The branch for an existing file once all its hunks were tried.
PatchApplied(file_path, applied, st, e) ==
    IF applied.failed_hunks # <<>> THEN PatchFailed(file_path, applied, st, e)
    ELSE PatchWritten(file_path, applied, WriteText(st, e, file_path, applied.content))

\* The branch for an existing file once it was read, or could not be.
PatchRead(file_path, hunks, read, st, e) ==
    IF read.error = "decode"
    THEN [result |-> FileFailure("decode_error"), st |-> st]
    ELSE IF read.error # "none"
    THEN [result |-> FileFailure("read_error"), st |-> st]
    ELSE PatchApplied(file_path, ApplyHunks(read.data, hunks, 1, <<>>, <<>>), st, e)

\* The branch of _apply_patch_to_file for a path that exists.
PatchExisting(file_path, hunks, st, e) ==
    PatchRead(file_path, hunks, ReadText(st, file_path),
              [st EXCEPT !.log = Append(@, <<"read", file_path>>)], e)

\* _apply_patch_to_file for a path already absolute.
ApplyPatchToAbsolute(file_path, hunks, st, e) ==
    IF ~PathExists(st, file_path)
    THEN CreateFromPatch(file_path, hunks, st, e)
    ELSE PatchExisting(file_path, hunks, st, e)

ApplyPatchToFile(path, hunks, st, e) ==
    ApplyPatchToAbsolute(Absolute(path), hunks,
                         [st EXCEPT !.log = Append(@, <<"apply_file", Absolute(path), Len(hunks)>>)], e)

\* The path apply_patch hands to _apply_patch_to_file (base_path <<>> is None).
ResolvePatchPath(file_path, base_path) ==
    IF base_path # <<>> /\ ~IsAbs(file_path)
    THEN IF IsAbs(base_path)
         THEN PathJoin(base_path, LStrip(file_path, {"/"}))
         ELSE PathJoin(Abspath(base_path), LStrip(file_path, {"/"}))
    ELSE file_path

RECURSIVE ApplyFileChanges(_, _, _, _, _, _)

\* {'file_path': file_path, **result}: the path of the result when it has one,
\* the path handed to _apply_patch_to_file when it has none.
MergedPath(file_path, result) ==
    IF "file_path" \in DOMAIN result THEN result.file_path ELSE file_path

\* results.append({'file_path': file_path, **result}), and on to the next file change.
FileChangeDone(patches, i, base_path, results, file_path, r, e) ==
    ApplyFileChanges(patches, i + 1, base_path,
                     Append(results, [file_path |-> MergedPath(file_path, r.result),
                                      result |-> r.result]),
                     r.st, e)

\* One file change in a variant that merges repeated paths: a path that has a
\* result already is not handed to _apply_patch_to_file again.
ApplyFileChangeOncePerPath(patches, i, base_path, results, file_path, st, e) ==
    IF \E k \in 1..Len(results) : Absolute(results[k].file_path) = Absolute(file_path)
    THEN ApplyFileChanges(patches, i + 1, base_path, results, st, e)
    ELSE FileChangeDone(patches, i, base_path, results, file_path,
                        ApplyPatchToFile(file_path, patches[i].hunks, st, e), e)

\* One file change: the path resolved, then _apply_patch_to_file.
ApplyFileChange(patches, i, base_path, results, file_path, st, e) ==
    FileChangeDone(patches, i, base_path, results, file_path,
                   ApplyPatchToFile(file_path, patches[i].hunks, st, e), e)

\* The loop over the parsed file changes, in a variant that leaves it at the
\* first file that fails.
ApplyFileChangesUntilFailure(patches, i, base_path, results, st, e) ==
    IF i > Len(patches) \/ (results # <<>> /\ ~results[Len(results)].result.success)
    THEN [results |-> results, st |-> st]
    ELSE ApplyFileChange(patches, i, base_path, results,
                         ResolvePatchPath(patches[i].file_path, base_path), st, e)

\* The loop over the parsed file changes; every one is handed to _apply_patch_to_file.
ApplyFileChanges(patches, i, base_path, results, st, e) ==
    IF i > Len(patches) THEN [results |-> results, st |-> st]
    ELSE ApplyFileChange(patches, i, base_path, results,
                         ResolvePatchPath(patches[i].file_path, base_path), st, e)

\* result.get(key, default)
Get(result, key, default) == IF key \in DOMAIN result THEN result[key] ELSE default

\* One line of the summary for a result: the mark, the path and the message
\* or the error, which for failed hunks shows the list of their numbers.
SummaryLine(merged) ==
    [ok |-> Get(merged.result, "success", FALSE),
     file_path |-> merged.file_path,
     text |-> merged.result.text,
     failed_hunks |-> IF merged.result.text = "hunks_failed"
                      THEN merged.result.failed_hunks ELSE <<>>]

\* The summary in a variant whose header counts every file as a success.
PatchSummaryCountsAll(results) ==
    [kind |-> "summary",
     success_count |-> Len(results),
     total_count |-> Len(results),
     lines |-> [k \in 1..Len(results) |-> SummaryLine(results[k])],
     results |-> results]

\* The summary: the header with the two counts, then one line per result with
\* its mark, path and message or error.  results is the list the text was
\* made from, each entry the path and the dict of _apply_patch_to_file.
PatchSummary(results) ==
    [kind |-> "summary",
     success_count |-> Cardinality({k \in 1..Len(results) :
                                       Get(results[k].result, "success", FALSE)}),
     total_count |-> Len(results),
     lines |-> [k \in 1..Len(results) |-> SummaryLine(results[k])],
     results |-> results]

PatchDone(done) == [ret |-> PatchSummary(done.results), st |-> done.st]

\* apply_patch once the patch is parsed; an exception of the parser is caught
\* by the except of apply_patch, which returns its text.
ApplyParsed(patches, base_path, st, e) ==
    IF patches = ParseRaised
    THEN [ret |-> [kind |-> "error", text |-> "exception"], st |-> st]
    ELSE IF patches = <<>>
    THEN [ret |-> [kind |-> "error", text |-> "unparsable_patch"], st |-> st]
    ELSE PatchDone(ApplyFileChanges(patches, 1, base_path, <<>>, st, e))

\* apply_patch(patch, base_path): the returned text and the file system it leaves.
ApplyPatch(patch, base_path, st, e) ==
    IF patch = <<>> \/ Strip(patch) = <<>>
    THEN [ret |-> [kind |-> "error", text |-> "empty_patch"], st |-> st]
    ELSE ApplyParsed(ParseUnifiedDiff(patch), base_path, st, e)

-----------------------------------------------------------------------------
(* The multi-edit engine: _validate_input, _apply_content_edit and multi_edit *)

\* An edit is [old_string, new_string, replace_all].

\* old_string in content
RECURSIVE FindFrom(_, _, _)
FindFrom(content, sub, from) ==
    IF from + Len(sub) > Len(content) THEN -1
    ELSE IF SubSeq(content, from + 1, from + Len(sub)) = sub THEN from
    ELSE FindFrom(content, sub, from + 1)

\* content.find(sub): the index of the first occurrence, -1 when there is none
Find(content, sub) == FindFrom(content, sub, 0)

Contains(content, sub) == Find(content, sub) >= 0

\* content.replace(old_string, new_string, 1), old_string occurring in content
ReplaceFirst(content, old_string, new_string) ==
    LET at == Find(content, old_string)
    IN  PyTo(content, at) \o new_string \o PyFrom(content, at + Len(old_string))

\* The characters re.escape puts a backslash before.
ReSpecial ==
    {"(", ")", "[", "]", "{", "}", "?", "*", "+", "-", "|", "^", "$", BS, ".",
     "&", "~", "#", " ", TAB, NL, "\r", "VT", "\f"}

\* re.escape(old_string)
RECURSIVE ReEscape(_)
ReEscape(str) ==
    IF str = <<>> THEN <<>>
    ELSE (IF Head(str) \in ReSpecial THEN <<BS, Head(str)>> ELSE <<Head(str)>>)
         \o ReEscape(Tail(str))

\* re.compile of an escaped pattern: the characters it matches one after the
\* other, a backslash making the character after it literal.
RECURSIVE PatternChars(_)
PatternChars(pattern) ==
    IF pattern = <<>> THEN <<>>
    ELSE IF Head(pattern) = BS /\ Len(pattern) >= 2
    THEN <<pattern[2]>> \o PatternChars(PyFrom(pattern, 2))
    ELSE <<Head(pattern)>> \o PatternChars(Tail(pattern))

\* pattern.findall(content): the matches left to right, none overlapping; the
\* empty pattern matches once at every position, the end included.
RECURSIVE FindAll(_, _, _)
FindAll(chars, content, from) ==
    IF chars = <<>>
    THEN [k \in 1..(Len(content) + 1 - from) |-> <<>>]
    ELSE IF from + Len(chars) > Len(content) THEN <<>>
    ELSE IF SubSeq(content, from + 1, from + Len(chars)) = chars
    THEN <<chars>> \o FindAll(chars, content, from + Len(chars))
    ELSE FindAll(chars, content, from + 1)

\* The escapes a replacement template turns into one character.
TemplateEscapes == {"n", "t", "r", "f", BS, "a", "b", "v"}

TemplateEscape(c) ==
    CASE c = "n" -> NL [] c = "t" -> TAB [] c = "r" -> "\r" [] c = "f" -> "\f"
      [] c = BS -> BS [] c = "a" -> "BEL" [] c = "b" -> "BS" [] c = "v" -> "VT"

AsciiLetters ==
    {"a", "b", "c", "d", "e", "f", "g", "h", "i", "j", "k", "l", "m",
     "n", "o", "p", "q", "r", "s", "t", "u", "v", "w", "x", "y", "z",
     "A", "B", "C", "D", "E", "F", "G", "H", "I", "J", "K", "L", "M",
     "N", "O", "P", "Q", "R", "S", "T", "U", "V", "W", "X", "Y", "Z"}

OctDigits == {"0", "1", "2", "3", "4", "5", "6", "7"}

TemplateError == [ok |-> FALSE, text |-> <<>>]

TemplateCons(text, rest) == IF rest.ok THEN [ok |-> TRUE, text |-> text \o rest.text] ELSE rest

\* The characters of the code points 0 to 255: a printable ASCII character
\* as itself, a control character by its name, the others by their code.
CharOfCode ==
    <<
     "NUL", "x01", "x02", "x03", "x04", "x05", "x06", "BEL",
     "BS", "\t", "\n", "VT", "\f", "\r", "x0e", "x0f",
     "x10", "x11", "x12", "x13", "x14", "x15", "x16", "x17",
     "x18", "x19", "x1a", "ESC", "FS", "GS", "RS", "US",
     " ", "!", "\"", "#", "$", "%", "&", "'",
     "(", ")", "*", "+", ",", "-", ".", "/",
     "0", "1", "2", "3", "4", "5", "6", "7",
     "8", "9", ":", ";", "<", "=", ">", "?",
     "@", "A", "B", "C", "D", "E", "F", "G",
     "H", "I", "J", "K", "L", "M", "N", "O",
     "P", "Q", "R", "S", "T", "U", "V", "W",
     "X", "Y", "Z", "[", "\\", "]", "^", "_",
     "x60", "a", "b", "c", "d", "e", "f", "g",
     "h", "i", "j", "k", "l", "m", "n", "o",
     "p", "q", "r", "s", "t", "u", "v", "w",
     "x", "y", "z", "{", "|", "}", "~", "DEL",
     "x80", "x81", "x82", "x83", "x84", "NEL", "x86", "x87",
     "x88", "x89", "x8a", "x8b", "x8c", "x8d", "x8e", "x8f",
     "x90", "x91", "x92", "x93", "x94", "x95", "x96", "x97",
     "x98", "x99", "x9a", "x9b", "x9c", "x9d", "x9e", "x9f",
     "NBSP", "xa1", "xa2", "xa3", "xa4", "xa5", "xa6", "xa7",
     "xa8", "xa9", "xaa", "xab", "xac", "xad", "xae", "xaf",
     "xb0", "xb1", "xb2", "xb3", "xb4", "xb5", "xb6", "xb7",
     "xb8", "xb9", "xba", "xbb", "xbc", "xbd", "xbe", "xbf",
     "xc0", "xc1", "xc2", "xc3", "xc4", "xc5", "xc6", "xc7",
     "xc8", "xc9", "xca", "xcb", "xcc", "xcd", "xce", "xcf",
     "xd0", "xd1", "xd2", "xd3", "xd4", "xd5", "xd6", "xd7",
     "xd8", "xd9", "xda", "xdb", "xdc", "xdd", "xde", "xdf",
     "xe0", "xe1", "xe2", "xe3", "xe4", "xe5", "xe6", "xe7",
     "xe8", "xe9", "xea", "xeb", "xec", "xed", "xee", "xef",
     "xf0", "xf1", "xf2", "xf3", "xf4", "xf5", "xf6", "xf7",
     "xf8", "xf9", "xfa", "xfb", "xfc", "xfd", "xfe", "xff" >>

\* chr(code)
Chr(code) == CharOfCode[code + 1]

\* int(s, 8) for a string of octal digits
RECURSIVE ParseOct(_, _)
ParseOct(s, acc) == IF s = <<>> THEN acc ELSE ParseOct(Tail(s), 8 * acc + DigitValue(Head(s)))

\* The characters of the code points 128 to 255 an identifier starts with
\* (the letters among them), and the one more it goes on with (the middle dot).
Latin1Letters ==
    {CharOfCode[code + 1] : code \in {170, 181, 186} \cup (192..214) \cup (216..246) \cup (248..255)}

IdentifierStart == AsciiLetters \cup {"_"} \cup Latin1Letters

IdentifierContinue == IdentifierStart \cup Digits \cup {CharOfCode[183 + 1]}

\* name.isidentifier(), for a name of characters up to code point 255
IsIdentifier(name) ==
    /\ name # <<>>
    /\ Head(name) \in IdentifierStart
    /\ \A k \in 1..Len(name) : name[k] \in IdentifierContinue

\* The digits int() reads: decimal digits, single underscores between them.
IntDigits(body) ==
    /\ body # <<>>
    /\ body[1] \in Digits
    /\ body[Len(body)] \in Digits
    /\ \A k \in 1..Len(body) : body[k] \in Digits \cup {"_"}
    /\ \A k \in 1..(Len(body) - 1) : ~(body[k] = "_" /\ body[k + 1] = "_")

IsDigit(c) == c \in Digits

\* The white space int() drops around a number: that of str.strip() without
\* the four separators.
IntSpace == Whitespace \ {"FS", "GS", "RS", "US"}

\* int(text): white space around the number dropped, a sign, the digits;
\* ValueError for any other text.
PyInt(text) ==
    LET t == LStrip(RStrip(text, IntSpace), IntSpace)
        signed == t # <<>> /\ Head(t) \in {"+", "-"}
        body == IF signed THEN Tail(t) ELSE t
    IN  IF IntDigits(body) /\ ~IntRaises(SelectSeq(body, IsDigit))
        THEN [ok |-> TRUE,
              value |-> (IF signed /\ Head(t) = "-" THEN -1 ELSE 1)
                            * ParseInt(SelectSeq(body, IsDigit), 0)]
        ELSE [ok |-> FALSE, value |-> 0]

\* The group a name between \g< and > refers to is group 0, the whole match:
\* the pattern has no named group, so a name that is an identifier raises
\* IndexError; any other name is read by int(), which also takes a sign,
\* white space and underscores (the template parser of Python 3.11, which
\* warns about such a name and goes on), and a number that is negative or
\* above the pattern's group count, 0, raises.
RefersToMatch(name) ==
    /\ ~IsIdentifier(name)
    /\ PyInt(name).ok
    /\ PyInt(name).value = 0

\* The octal digits an escape that starts with 0 takes after it: two at most.
ZeroEscapeDigits(rest) ==
    IF Len(rest) >= 2 /\ rest[2] \in OctDigits
    THEN IF Len(rest) >= 3 /\ rest[3] \in OctDigits THEN 2 ELSE 1
    ELSE 0

\* The replacement text pattern.sub builds from new_string for a match of the
\* text `matched`: the template is parsed once, before any match is looked for,
\* and a bad escape or a reference to a group the pattern does not have raises.
\* (The pattern has no groups.)
RECURSIVE ExpandTemplate(_, _)
ExpandTemplate(template, matched) ==
    IF template = <<>> THEN [ok |-> TRUE, text |-> <<>>]
    ELSE IF Head(template) # BS
    THEN TemplateCons(<<Head(template)>>, ExpandTemplate(Tail(template), matched))
    ELSE IF Len(template) = 1 THEN TemplateError
    ELSE LET c == template[2]
             rest == PyFrom(template, 2)
             this == Tail(template)
         IN  IF c = "g"
             THEN LET close == Find(rest, <<">">>)
                      name == SubSeq(rest, 2, close)
                  IN  IF ~StartsWith(rest, <<"<">>) \/ close < 0 \/ name = <<>>
                      THEN TemplateError
                      ELSE IF RefersToMatch(name)
                      THEN TemplateCons(matched, ExpandTemplate(PyFrom(rest, close + 1), matched))
                      ELSE TemplateError
             ELSE IF c = "0"
             THEN LET more == ZeroEscapeDigits(this)
                  IN  TemplateCons(<<Chr(ParseOct(SubSeq(this, 1, 1 + more), 0) % 256)>>,
                                   ExpandTemplate(PyFrom(rest, more), matched))
             ELSE IF c \in Digits
             THEN IF /\ Len(this) >= 3
                     /\ c \in OctDigits /\ this[2] \in OctDigits /\ this[3] \in OctDigits
                     /\ ParseOct(SubSeq(this, 1, 3), 0) <= 255
                  THEN TemplateCons(<<Chr(ParseOct(SubSeq(this, 1, 3), 0))>>,
                                    ExpandTemplate(PyFrom(rest, 2), matched))
                  ELSE TemplateError
             ELSE IF c \in TemplateEscapes
             THEN TemplateCons(<<TemplateEscape(c)>>, ExpandTemplate(rest, matched))
             ELSE IF c \in AsciiLetters
             THEN TemplateError
             ELSE TemplateCons(<<BS, c>>, ExpandTemplate(rest, matched))

\* pattern.sub(replacement, content) for the replacement already expanded
RECURSIVE SubAll(_, _, _, _)
SubAll(chars, replacement, content, from) ==
    IF chars = <<>>
    THEN IF from >= Len(content) THEN replacement
         ELSE replacement \o <<content[from + 1]>> \o SubAll(chars, replacement, content, from + 1)
    ELSE IF from + Len(chars) > Len(content) THEN PyFrom(content, from)
    ELSE IF SubSeq(content, from + 1, from + Len(chars)) = chars
    THEN replacement \o SubAll(chars, replacement, content, from + Len(chars))
    ELSE <<content[from + 1]>> \o SubAll(chars, replacement, content, from + 1)

\* pattern.sub(new_string, content) and the count of pattern.findall(content),
\* for the replacement new_string stands for.
Substituted(content, pattern, replacement) ==
    IF ~replacement.ok
    THEN [raised |-> TRUE, new_content |-> content, occurrences |-> 0]
    ELSE [raised |-> FALSE,
          new_content |-> SubAll(pattern, replacement.text, content, 0),
          occurrences |-> Len(FindAll(pattern, content, 0))]

\* The replace_all branch once the pattern is compiled.
ReplaceAllMatches(content, pattern, new_string) ==
    Substituted(content, pattern, ExpandTemplate(new_string, pattern))

\* The replace_all branch of _apply_content_edit.
ReplaceAllEdit(content, old_string, new_string) ==
    ReplaceAllMatches(content, PatternChars(ReEscape(old_string)), new_string)

\* The single-replacement branch in a variant that lets an edit whose
\* old_string is absent pass, with no occurrence replaced.
ReplaceOneEditLenient(content, old_string, new_string) ==
    IF Contains(content, old_string)
    THEN [raised |-> FALSE,
          new_content |-> ReplaceFirst(content, old_string, new_string),
          occurrences |-> 1]
    ELSE [raised |-> FALSE, new_content |-> content, occurrences |-> 0]

\* The single-replacement branch of _apply_content_edit.
ReplaceOneEdit(content, old_string, new_string) ==
    IF Contains(content, old_string)
    THEN [raised |-> FALSE,
          new_content |-> ReplaceFirst(content, old_string, new_string),
          occurrences |-> 1]
    ELSE [raised |-> TRUE, new_content |-> content, occurrences |-> 0]

\* _apply_content_edit(content, old_string, new_string, replace_all)
ApplyContentEdit(content, old_string, new_string, replace_all) ==
    IF replace_all THEN ReplaceAllEdit(content, old_string, new_string)
    ELSE ReplaceOneEdit(content, old_string, new_string)

\* The characters that are one byte in UTF-8.
AsciiChars == {CharOfCode[code] : code \in 1..128}

\* The byte at which character k of a text starts in its UTF-8 encoding: one
\* byte for every ASCII character before it, two for every other character
\* of CharOfCode (all of them below U+0800).
Utf8Offset(data, k) ==
    (k - 1) + Cardinality({j \in 1..(k - 1) : data[j] \notin AsciiChars})

\* b'\0' in chunk, for chunk the first 1024 bytes of the text `data`.
NulInFirstBytes(data) ==
    \E k \in 1..Min(Len(data), 1024) : data[k] = NUL /\ Utf8Offset(data, k) < 1024

\* _is_binary_file: a null byte in the first 1024 bytes; False when the file cannot be opened.
IsBinaryFile(st, path) ==
    /\ path \in DOMAIN st.files
    /\ NulInFirstBytes(st.files[path].data)

\* The pre-validation in a variant that looks at the first edit only.
FirstMissingOfFirst(edit_list, content) ==
    IF edit_list[1].old_string # <<>> /\ ~Contains(content, edit_list[1].old_string)
    THEN 1 ELSE 0

\* The first edit (1-based) whose non-empty old_string the content lacks, 0 when none.
FirstMissing(edit_list, content) ==
    LET bad == {k \in 1..Len(edit_list) :
                   edit_list[k].old_string # <<>> /\ ~Contains(content, edit_list[k].old_string)}
    IN  IF bad = {} THEN 0 ELSE CHOOSE k \in bad : \A m \in bad : k <= m

\* The check of old_string against new_string in a variant that looks at the
\* first edit only.
FirstNoOpOfFirst(edit_list) ==
    IF edit_list[1].old_string = edit_list[1].new_string THEN 1 ELSE 0

\* The first edit (1-based) with old_string = new_string, 0 when none.
FirstNoOp(edit_list) ==
    LET bad == {k \in 1..Len(edit_list) : edit_list[k].old_string = edit_list[k].new_string}
    IN  IF bad = {} THEN 0 ELSE CHOOSE k \in bad : \A m \in bad : k <= m

Invalid(message, index, st) ==
    [valid |-> FALSE, raised |-> FALSE, message |-> message, index |-> index, st |-> st]

\* The last loop of _validate_input: no edit may have old_string = new_string.
ValidateEdits(edit_list, st) ==
    IF FirstNoOp(edit_list) # 0 THEN Invalid("same_strings", FirstNoOp(edit_list), st)
    ELSE [valid |-> TRUE, raised |-> FALSE, message |-> "", index |-> 0, st |-> st]

\* _validate_input for a file that is not binary, once it was read or could
\* not be: every old_string that is not empty must be in the content.
ValidateRead(edit_list, read, st) ==
    IF read.error = "os"
    THEN [valid |-> FALSE, raised |-> TRUE, message |-> "exception", index |-> 0, st |-> st]
    ELSE IF read.error = "decode" THEN Invalid("decode_error", 0, st)
    ELSE IF FirstMissing(edit_list, read.data) # 0
    THEN Invalid("not_found", FirstMissing(edit_list, read.data), st)
    ELSE ValidateEdits(edit_list, st)

\* _validate_input(path, edit_list): the verdict, and the file system it leaves
\* (it creates the missing directories of a new file).  raised: an exception
\* other than UnicodeDecodeError left the function.
ValidateInput(file_path, edit_list, st, e) ==
    LET path == Absolute(file_path)
        parent_dir == Dirname(path)
        made == IF parent_dir # <<>> /\ ~PathExists(st, parent_dir)
                THEN MakeDirs(st, e, parent_dir)
                ELSE [ok |-> TRUE, st |-> st]
        read == ReadText(st, path)
    IN  IF edit_list = <<>> THEN Invalid("no_edits", 0, st)
        ELSE IF EndsWith(path, <<".", "i", "p", "y", "n", "b">>) THEN Invalid("notebook", 0, st)
        ELSE IF ~PathExists(st, path)
        THEN IF ~made.ok THEN Invalid("makedirs_error", 0, made.st)
             ELSE IF edit_list[1].old_string # <<>> THEN Invalid("new_file_old_string", 0, made.st)
             ELSE ValidateEdits(edit_list, made.st)
        ELSE IF IsBinaryFile(st, path) THEN Invalid("binary", 0, st)
        ELSE ValidateRead(edit_list, read, st)

\* The loop over the edits: each is applied to the text the one before left;
\* the first that raises ends the call.
RECURSIVE ApplyEdits(_, _, _, _)

\* One edit tried.
EditTried(modified_content, edits, i, applied_edits, r) ==
    IF r.raised
    THEN [failed |-> i, content |-> modified_content, applied_edits |-> applied_edits]
    ELSE ApplyEdits(r.new_content, edits, i + 1,
                    Append(applied_edits, [edit_index |-> i, occurrences |-> r.occurrences]))

ApplyEdits(modified_content, edits, i, applied_edits) ==
    IF i > Len(edits)
    THEN [failed |-> 0, content |-> modified_content, applied_edits |-> applied_edits]
    ELSE EditTried(modified_content, edits, i, applied_edits,
                   ApplyContentEdit(modified_content, edits[i].old_string,
                                    edits[i].new_string, edits[i].replace_all))

\* The text multi_edit returns on success: the number of edits and one line per
\* applied edit with its index and its occurrence count.
EditSummary(path, edits, applied_edits) ==
    [kind |-> "summary", file_path |-> path, edits |-> Len(edits),
     details |-> applied_edits]

EditError(text, index) == [kind |-> "error", text |-> text, index |-> index]

\* The end of multi_edit: the outcome of the write.
EditsWritten(path, edits, applied, written) ==
    IF ~written.ok
    THEN [ret |-> EditError("write_error", 0), st |-> written.st]
    ELSE [ret |-> EditSummary(path, edits, applied.applied_edits), st |-> written.st]

\* An edit that raised, in a variant that writes what the edits before it made
\* of the content.
EditFailedWritePartial(path, applied, st, e) ==
    [ret |-> EditError("edit_failed", applied.failed),
     st |-> WriteText(st, e, path, applied.content).st]

\* except Exception as e: return f"编辑 {i + 1} 出错: {str(e)}", nothing being written.
EditFailed(path, applied, st, e) ==
    [ret |-> EditError("edit_failed", applied.failed), st |-> st]

\* multi_edit once the loop over the edits is left.
EditsApplied(path, edits, applied, st, e) ==
    IF applied.failed # 0 THEN EditFailed(path, applied, st, e)
    ELSE EditsWritten(path, edits, applied, WriteText(st, e, path, applied.content))

\* multi_edit on an existing file once it was read, or could not be.
EditExisting(path, edits, read, st, e) ==
    IF read.error = "decode" THEN [ret |-> EditError("decode_error", 0), st |-> st]
    ELSE IF read.error # "none" THEN [ret |-> EditError("exception", 0), st |-> st]
    ELSE EditsApplied(path, edits, ApplyEdits(read.data, edits, 1, <<>>), st, e)

\* multi_edit on a new file once os.makedirs returned, or raised.
EditNew(path, edits, made, e) ==
    IF ~made.ok THEN [ret |-> EditError("exception", 0), st |-> made.st]
    ELSE EditsApplied(path, edits, ApplyEdits(<<>>, edits, 1, <<>>), made.st, e)

\* multi_edit once _validate_input returned, or raised.
EditValidated(path, edits, validation_result, e) ==
    IF validation_result.raised
    THEN [ret |-> EditError("exception", 0), st |-> validation_result.st]
    ELSE IF ~validation_result.valid
    THEN [ret |-> EditError(validation_result.message, validation_result.index),
          st |-> validation_result.st]
    ELSE IF PathExists(validation_result.st, path)
    THEN EditExisting(path, edits, ReadText(validation_result.st, path),
                      [validation_result.st EXCEPT !.log = Append(@, <<"read", path>>)], e)
    ELSE EditNew(path, edits, MakeDirs(validation_result.st, e, Dirname(path)), e)

\* multi_edit(file_path, edits): the returned text and the file system it leaves.
MultiEdit(file_path, edits, st, e) ==
    EditValidated(Absolute(file_path), edits, ValidateInput(file_path, edits, st, e), e)

-----------------------------------------------------------------------------
(* Inputs of the hunk applier *)

MaxFileLines == 2
MaxHunkOps == 3
MaxInsert == 1
MaxContext == 1

\* The line texts files and hunks are made of; the empty line is one of them.
LineTexts == {<<"a">>, <<"b">>, <<>>}

SeqsUpTo(S, n) == UNION {[1..k -> S] : k \in 0..n}

\* The text of a file of the given lines, each line newline-terminated when
\* `terminated`, the last one not when not.
FileText(ls, terminated) ==
    IF terminated THEN Join(ls \o << <<>> >>, NL) ELSE Join(ls, NL)

\* The texts of the hunk lines tried on them.
HunkTexts == {<<"a">>, <<>>}

HunkLineSet == {" ", "-", "+"} \X HunkTexts

CountTag(hunk_lines, tags) == Cardinality({k \in 1..Len(hunk_lines) : hunk_lines[k][1] \in tags})

\* A hunk as the parser builds it (old_start, old_count, new_start, new_count, lines).
MkHunk(old_start, new_start, hunk_lines) ==
    [old_start |-> old_start,
     old_count |-> CountTag(hunk_lines, {" ", "-"}),
     new_start |-> new_start,
     new_count |-> CountTag(hunk_lines, {" ", "+"}),
     lines |-> hunk_lines]

Tagged(tag, ls) == [k \in 1..Len(ls) |-> <<tag, ls[k]>>]

\* The hunk a unified differ writes for replacing the d lines after the first p
\* lines of ls by the lines ins, with up to ctx lines of context on each side.
\* A side with no lines is numbered by the line before it (0 at the top).
DifferHunk(ls, p, d, ins, ctx) ==
    LET before == SubSeq(ls, Max(p - ctx, 0) + 1, p)
        after == SubSeq(ls, p + d + 1, Min(p + d + ctx, Len(ls)))
        body == Tagged(" ", before) \o Tagged("-", SubSeq(ls, p + 1, p + d))
                \o Tagged("+", ins) \o Tagged(" ", after)
        first == p - Len(before)
        old_count == Len(before) + d + Len(after)
        new_count == Len(before) + Len(ins) + Len(after)
    IN  [old_start |-> IF old_count = 0 THEN first ELSE first + 1,
         old_count |-> old_count,
         new_start |-> IF new_count = 0 THEN first ELSE first + 1,
         new_count |-> new_count,
         lines |-> body]

\* The lines after the change.
DifferResult(ls, p, d, ins) == SubSeq(ls, 1, p) \o ins \o SubSeq(ls, p + d + 1, Len(ls))

-----------------------------------------------------------------------------
(* Specification of the hunk applier alone *)

Idle ==
    /\ op = "idle"
    /\ arg = <<>>
    /\ ret = <<>>
    /\ log = <<>>

NoFileSystem ==
    /\ files = <<>>
    /\ dirs = {}
    /\ env = [blocked |-> {}, readonly |-> {}]
    /\ pre = [files |-> <<>>, dirs |-> {}]

InitHunk == Idle /\ NoFileSystem

\* _apply_hunk_to_content(content, hunk) on any content and any hunk
ApplyHunkCall ==
    /\ op = "idle"
    /\ \E ls \in SeqsUpTo(LineTexts, MaxFileLines), terminated \in BOOLEAN,
          hunk_lines \in SeqsUpTo(HunkLineSet, MaxHunkOps), start \in 0..(MaxFileLines + 1) :
          LET content == FileText(ls, terminated)
              hunk == MkHunk(start, start, hunk_lines)
          IN  /\ arg' = [content |-> content, hunk |-> hunk]
              /\ ret' = ApplyHunkToContent(content, hunk)
    /\ op' = "apply_hunk"
    /\ UNCHANGED <<files, dirs, env, pre, log>>

\* _apply_hunk_to_content(C, H) on a content C and the hunk H a differ writes
\* for one change of C.  When C has no final newline its last line is not
\* empty and the change leaves it alone, so that the result has none either.
DiffApplyCall ==
    /\ op = "idle"
    /\ \E ls \in SeqsUpTo(LineTexts, MaxFileLines), terminated \in BOOLEAN,
          ins \in SeqsUpTo(LineTexts, MaxInsert), ctx \in 0..MaxContext :
          \E p \in 0..Len(ls) : \E d \in 0..(Len(ls) - p) :
              /\ d + Len(ins) > 0
              /\ ins # SubSeq(ls, p + 1, p + d)
              /\ terminated \/ (p + d < Len(ls) /\ ls[Len(ls)] # <<>>)
              /\ LET content == FileText(ls, terminated)
                     hunk == DifferHunk(ls, p, d, ins, ctx)
                 IN  /\ arg' = [content |-> content, hunk |-> hunk,
                                expected |-> FileText(DifferResult(ls, p, d, ins), terminated)]
                     /\ ret' = ApplyHunkToContent(content, hunk)
    /\ op' = "diff_apply"
    /\ UNCHANGED <<files, dirs, env, pre, log>>

\* The lines a differ's later change puts in.
ChangedTexts == {<<"c">>}

\* The hunk loop of _apply_patch_to_file on a content C and the two hunks a
\* differ without context writes for two changes of C with a line between them
\* that stays: both hunks are numbered by the lines of C, the new side of the
\* second by the lines of the result.  Each change deletes a line at least.
DiffApplyHunksCall ==
    /\ op = "idle"
    /\ \E ls \in SeqsUpTo(LineTexts, MaxFileLines + 1), terminated \in BOOLEAN,
          ins1 \in SeqsUpTo(ChangedTexts, MaxInsert), ins2 \in SeqsUpTo(ChangedTexts, MaxInsert) :
          \E p1 \in 0..Len(ls), p2 \in 0..Len(ls) :
              \E d1 \in 1..(Len(ls) - p1), d2 \in 1..(Len(ls) - p2) :
                  /\ p1 + d1 < p2
                  /\ terminated \/ (p2 + d2 < Len(ls) /\ ls[Len(ls)] # <<>>)
                  /\ LET content == FileText(ls, terminated)
                         first == DifferHunk(ls, p1, d1, ins1, 0)
                         second == [DifferHunk(ls, p2, d2, ins2, 0)
                                        EXCEPT !.new_start = @ + Len(ins1) - d1]
                     IN  /\ arg' = [content |-> content, hunks |-> <<first, second>>,
                                    expected |-> FileText(DifferResult(DifferResult(ls, p2, d2, ins2),
                                                                       p1, d1, ins1), terminated)]
                         /\ ret' = ApplyHunks(content, <<first, second>>, 1, <<>>, <<>>)
    /\ op' = "diff_apply_hunks"
    /\ UNCHANGED <<files, dirs, env, pre, log>>

NextHunk == ApplyHunkCall \/ DiffApplyCall \/ DiffApplyHunksCall

SpecHunk == InitHunk /\ [][NextHunk]_vars

-----------------------------------------------------------------------------
(* Specification of the two tools on a file system *)

MaxBlocks == 2
MaxEdits == 2

PathF == <<"/", "w", "/", "f">>
PathG == <<"/", "w", "/", "g">>
DirD == <<"/", "w", "/", "d">>
PathH == <<"/", "w", "/", "d", "/", "h">>

\* The file systems a call may find: text files with and without a final
\* newline, the latter with a line that ends in "\r\n", a file that is not
\* UTF-8, a file with a null byte, a directory that is missing and can or
\* cannot be created, a file that cannot be opened for writing.
InitFileSystems ==
    { [files |-> (PathF :> TextFile(<<"a", NL, "b", NL>>)) @@ (PathG :> TextFile(<<"a", "\r", NL, "b">>)),
       dirs |-> {Root, Cwd},
       env |-> [blocked |-> {}, readonly |-> {}]],
      [files |-> (PathF :> UndecodableFile),
       dirs |-> {Root, Cwd},
       env |-> [blocked |-> {DirD}, readonly |-> {}]],
      [files |-> (PathF :> TextFile(<<"x", ".", "x", " ", "x">>)) @@ (PathG :> TextFile(<<NUL, "a">>))
                 @@ (PathH :> TextFile(<<"a", NL, "b", NL>>)),
       dirs |-> {Root, Cwd, DirD},
       env |-> [blocked |-> {}, readonly |-> {PathH}]] }

Init ==
    /\ Idle
    /\ \E fs \in InitFileSystems :
          /\ files = fs.files
          /\ dirs = fs.dirs
          /\ env = fs.env
          /\ pre = [files |-> fs.files, dirs |-> fs.dirs]

\* The '--- ' and '+++ ' lines of a block for a path.
BlockHeaderFor(path) ==
    << <<"-", "-", "-", " ", "a", "/">> \o path, <<"+", "+", "+", " ", "b", "/">> \o path >>

PatchPaths == {<<"f">>, <<"g">>, <<"d", "/", "h">>}

\* Hunks, header and body: line 1 a -> c, line 2 b -> c, c inserted between a
\* and b, a hunk for other text, two hunks of inserted lines only.
HunkReplace1 == <<<<"@", "@", " ", "-", "1", " ", "+", "1", " ", "@", "@">>,
         <<"-", "a">>,
         <<"+", "c">>>>
HunkReplace2 == <<<<"@", "@", " ", "-", "2", " ", "+", "2", " ", "@", "@">>,
         <<"-", "b">>,
         <<"+", "c">>>>
HunkInsert == <<<<"@", "@", " ", "-", "1", ",", "2", " ", "+", "1", ",", "3", " ", "@", "@">>,
         <<" ", "a">>,
         <<"+", "c">>,
         <<" ", "b">>>>
HunkOther == <<<<"@", "@", " ", "-", "1", " ", "+", "1", " ", "@", "@">>,
         <<"-", "x">>,
         <<"+", "y">>>>
HunkNew == <<<<"@", "@", " ", "-", "0", ",", "0", " ", "+", "1", ",", "2", " ", "@", "@">>,
         <<"+", "a">>,
         <<"+", "b">>>>
HunkNewBlank == <<<<"@", "@", " ", "-", "0", ",", "0", " ", "+", "1", ",", "2", " ", "@", "@">>,
         <<"+", "a">>,
         <<"+">>>>

\* The hunks of a block: one hunk, two of them, or three.
BlockHunks ==
    { <<HunkReplace1>>, <<HunkOther>>, <<HunkNew>>, <<HunkNewBlank>>,
      <<HunkReplace1, HunkReplace2>>, <<HunkOther, HunkReplace2>>,
      <<HunkInsert, HunkOther, HunkReplace2>> }

RECURSIVE Flatten(_)
Flatten(seqs) == IF seqs = <<>> THEN <<>> ELSE Head(seqs) \o Flatten(Tail(seqs))

\* A block: its path and its hunks.
Blocks == PatchPaths \X BlockHunks

\* The lines of a block.
BlockLines(block) == BlockHeaderFor(block[1]) \o Flatten(block[2])

\* The text of a patch of some blocks.
PatchText(blocks) == Join(Flatten([k \in 1..Len(blocks) |-> BlockLines(blocks[k])]), NL)

BasePaths == {<<>>, DirD}

\* apply_patch(patch, base_path) on a patch of one or more blocks
ApplyPatchCall ==
    /\ op = "idle"
    /\ \E blocks \in SeqsUpTo(Blocks, MaxBlocks) \ {<<>>}, base_path \in BasePaths :
          \E patch \in {PatchText(blocks)} :
              \E r \in {ApplyPatch(patch, base_path,
                                  [files |-> files, dirs |-> dirs, log |-> <<>>], env)} :
                  /\ arg' = [patch |-> patch, base_path |-> base_path,
                             paths |-> [k \in 1..Len(blocks) |-> blocks[k][1]]]
                  /\ ret' = r.ret
                  /\ files' = r.st.files
                  /\ dirs' = r.st.dirs
                  /\ log' = r.st.log
    /\ op' = "apply_patch"
    /\ pre' = [files |-> files, dirs |-> dirs]
    /\ UNCHANGED env

EditPaths == {<<"f">>, PathG, <<"d", "/", "h">>, <<"n", ".", "i", "p", "y", "n", "b">>}

OldStrings == {<<>>, <<"x">>, <<"y">>, <<".">>}
NewStrings == {<<>>, <<"y">>}

\* Replacement texts with a backslash: backslash n, and a backslash alone.
TemplateStrings == {<<BS, "n">>, <<BS>>}

\* The edits of a batch: every old_string with every plain new_string, with and
\* without replace_all, and the replacements with a backslash for "x" and "".
Edits ==
    [old_string : OldStrings, new_string : NewStrings, replace_all : BOOLEAN]
    \cup [old_string : {<<>>, <<"x">>}, new_string : TemplateStrings, replace_all : {TRUE}]

\* multi_edit(file_path, edits)
MultiEditCall ==
    /\ op = "idle"
    /\ \E file_path \in EditPaths, edits \in SeqsUpTo(Edits, MaxEdits) :
          \E r \in {MultiEdit(file_path, edits, [files |-> files, dirs |-> dirs, log |-> <<>>], env)} :
              /\ arg' = [file_path |-> file_path, edits |-> edits]
              /\ ret' = r.ret
              /\ files' = r.st.files
              /\ dirs' = r.st.dirs
              /\ log' = r.st.log
    /\ op' = "multi_edit"
    /\ pre' = [files |-> files, dirs |-> dirs]
    /\ UNCHANGED env

Next == ApplyPatchCall \/ MultiEditCall

Spec == Init /\ [][Next]_vars

-----------------------------------------------------------------------------
(* Claims about the hunk applier *)

\* C1: for every content C and every hunk H a unified differ writes for a change
\* C -> C', _apply_hunk_to_content(C, H) returns (C', True).
C1_RoundTrip ==
    op = "diff_apply" => ret = [content |-> arg.expected, success |-> TRUE]

\* C2: whenever _apply_hunk_to_content returns success = False, the content it
\* returns is the content it was given.
C2_FailureReturnsInput ==
    op \in {"apply_hunk", "diff_apply"} /\ ~ret.success => ret.content = arg.content

\* A failed call whose first old line matched and a later one did not, in a hunk
\* that also inserts: the rebuilt lines would differ from the input.
C2_Witness ==
    /\ op = "apply_hunk"
    /\ ~ret.success
    /\ Len(arg.hunk.lines) >= 2
    /\ arg.hunk.lines[1][1] = "+"
    /\ arg.hunk.lines[2][1] = " "
    /\ arg.hunk.old_start = 1
    /\ arg.content # <<>>
    /\ HunkFileLines(arg.content)[1] = arg.hunk.lines[2][2]
    /\ arg.hunk.old_count = 2

-----------------------------------------------------------------------------
(* Specification of the parser alone *)

MaxBodyLines == 3

\* '--- ' and '+++ ' lines: plain, with a tab-separated timestamp, for a new file.
BlockHeaders ==
    { << <<"-", "-", "-", " ", "a", "/", "f">>, <<"+", "+", "+", " ", "b", "/", "f">> >>,
      << <<"-", "-", "-", " ", "f", TAB, "1", "9">>, <<"+", "+", "+", " ", "f", TAB, "2", "0">> >>,
      << <<"-", "-", "-", " ">> \o DevNull, <<"+", "+", "+", " ", "b", "/", "d", "/", "h">> >> }

\* Hunk headers: both counts, no counts, a zero count with a section name.
HunkHeaders ==
    { <<"@", "@", " ", "-", "1", ",", "3", " ", "+", "1", ",", "3", " ", "@", "@">>,
      <<"@", "@", " ", "-", "2", " ", "+", "2", " ", "@", "@">>,
      <<"@", "@", " ", "-", "1", "0", ",", "0", " ", "+", "1", "1", " ", "@", "@", " ", "x">> }

\* Body lines: context, delete and insert lines of some text and of the empty
\* text, a deleted line whose text is "-- c", the no-newline marker.
BodyLines ==
    { <<" ", "a">>, <<"-", "b">>, <<"+", "c">>, <<" ">>, <<"-">>, <<"+">>,
      <<"-", "-", "-", " ", "c">>, <<"+", "+", "+", " ", "c">>,
      <<BS, " ", "N", "o">> }

InitParse == Idle /\ NoFileSystem

\* _parse_unified_diff on one block: '--- ' line, '+++ ' line, hunk header, body
ParseBlockCall ==
    /\ op = "idle"
    /\ \E header \in BlockHeaders, hunk_header \in HunkHeaders,
          body \in SeqsUpTo(BodyLines, MaxBodyLines) :
          LET patch == Join(header \o <<hunk_header>> \o body, NL)
          IN  /\ arg' = [patch |-> patch, body |-> body]
              /\ ret' = ParseUnifiedDiff(patch)
    /\ op' = "parse_block"
    /\ UNCHANGED <<files, dirs, env, pre, log>>

NextParse == ParseBlockCall

SpecParse == InitParse /\ [][NextParse]_vars

\* The LineOps of a body: every line that does not start with a backslash,
\* tagged by its first character, the text being the rest of the line.
RECURSIVE BodyLineOps(_)
BodyLineOps(body) ==
    IF body = <<>> THEN <<>>
    ELSE IF Head(body)[1] = BS THEN BodyLineOps(Tail(body))
    ELSE << <<Head(body)[1], Tail(Head(body))>> >> \o BodyLineOps(Tail(body))

\* C9: for a well-formed block the parser yields one FileChange with one hunk
\* whose LineOps are the body lines in document order, each tagged by its first
\* character with that character removed from the text, and nothing else; lines
\* starting with a backslash add no LineOp.
C9_BodyLinesBecomeLineOps ==
    op = "parse_block" =>
        /\ Len(ret) = 1
        /\ Len(ret[1].hunks) = 1
        /\ ret[1].hunks[1].lines = BodyLineOps(arg.body)

-----------------------------------------------------------------------------
(* What the log of a call tells *)

\* The positions in the log where _apply_patch_to_file was entered.
FileStarts == {j \in 1..Len(log) : log[j][1] = "apply_file"}

NthStart(k) == CHOOSE j \in FileStarts : Cardinality({m \in FileStarts : m <= j}) = k

\* The last log position of the k-th file change.
SegmentEnd(k) == IF k < Cardinality(FileStarts) THEN NthStart(k + 1) - 1 ELSE Len(log)

\* The events of the k-th file change.
Segment(k) == SubSeq(log, NthStart(k) + 1, SegmentEnd(k))

\* The paths handed to _apply_patch_to_file, in the order of the calls.
AppliedFiles == [k \in 1..Cardinality(FileStarts) |-> log[NthStart(k)][2]]

\* The attempts to open a file for writing among some events.
WriteAttempts(events) == SelectSeq(events, LAMBDA ev : ev[1] \in {"write", "write_failed"})

AbsentFile == [kind |-> "absent", data |-> <<>>]

WritesTo(path, n) == {j \in 1..n : log[j][1] = "write" /\ log[j][2] = path}

\* The file at a path after the first n events of the log.
FileAt(path, n) ==
    IF WritesTo(path, n) # {}
    THEN TextFile(log[CHOOSE j \in WritesTo(path, n) : \A m \in WritesTo(path, n) : m <= j][3])
    ELSE IF path \in DOMAIN pre.files THEN pre.files[path] ELSE AbsentFile

FileNow(path) == IF path \in DOMAIN files THEN files[path] ELSE AbsentFile

\* The files after the call are the files before it with the logged writes done.
FilesFollowLog ==
    \A path \in DOMAIN files \cup DOMAIN pre.files : FileNow(path) = FileAt(path, Len(log))

-----------------------------------------------------------------------------
(* Claims about the patch orchestrator *)

\* The k-th file change wrote its target: the open for writing succeeded and
\* the text went to the file.
Written(k) == \E j \in NthStart(k)..SegmentEnd(k) : log[j][1] = "write"

\* The file system lets the target of the k-th file change be opened for
\* writing at the moment the file change begins.
CanBeWritten(k) ==
    /\ AppliedFiles[k] \notin env.readonly
    /\ AppliedFiles[k] \notin dirs
    /\ Dirname(AppliedFiles[k]) \in dirs

\* What C3 says of every file change whose target exists as a text file,
\* but for when the target is written: the counts of the summary, the hunk
\* numbers of the results and, when a hunk failed, the content left as it
\* was and the file counted as failed.
FailedHunksLeaveFile ==
    /\ FilesFollowLog
    /\ ret.total_count = Len(ret.lines)
    /\ ret.success_count = Cardinality({k \in 1..Len(ret.lines) : ret.lines[k].ok})
    /\ \A k \in 1..Len(ret.lines) :
          FileAt(AppliedFiles[k], NthStart(k)).kind = "text" =>
              /\ ret.lines[k].text = "applied" =>
                    ret.results[k].result.applied_hunks = log[NthStart(k)][3]
              /\ ret.lines[k].text = "hunks_failed" =>
                    Len(ret.results[k].result.applied_hunks)
                       + Len(ret.results[k].result.failed_hunks) = log[NthStart(k)][3]
              /\ (WriteAttempts(Segment(k)) # <<>>) <=> (ret.lines[k].failed_hunks = <<>>)
              /\ ret.lines[k].failed_hunks # <<>> =>
                    /\ ~ret.lines[k].ok
                    /\ FileAt(AppliedFiles[k], SegmentEnd(k)) = FileAt(AppliedFiles[k], NthStart(k))

\* C3 as stated: per-file all-or-nothing.  For a file change whose target
\* exists as a text file, the target is written if and only if every hunk of
\* the file change applied; when a hunk failed the target's content after the
\* file change is its content before it, also when other hunks applied, and
\* the file counts as failed in the summary.
C3_WrittenIffAllHunksApplied ==
    op = "apply_patch" /\ ret.kind = "summary" =>
        /\ FailedHunksLeaveFile
        /\ \A k \in 1..Len(ret.lines) :
              FileAt(AppliedFiles[k], NthStart(k)).kind = "text" =>
                  (Written(k) <=> ret.lines[k].failed_hunks = <<>>)

\* C3 as amended: the same, the target being written if and only if every
\* hunk applied and the target can be opened for writing; when every hunk
\* applied and it cannot, nothing is written, the content stays and the file
\* counts as failed.
C3_AllOrNothingPerFile ==
    op = "apply_patch" /\ ret.kind = "summary" =>
        /\ FailedHunksLeaveFile
        /\ \A k \in 1..Len(ret.lines) :
              FileAt(AppliedFiles[k], NthStart(k)).kind = "text" =>
                  /\ Written(k) <=> (ret.lines[k].failed_hunks = <<>> /\ CanBeWritten(k))
                  /\ ~Written(k) =>
                        /\ ~ret.lines[k].ok
                        /\ FileAt(AppliedFiles[k], SegmentEnd(k)) = FileAt(AppliedFiles[k], NthStart(k))

\* Two file changes: in the first a hunk applied and another failed, the second
\* applied in full and was written: 1/2.
C3_Witness ==
    /\ op = "apply_patch"
    /\ ret.kind = "summary"
    /\ Len(ret.lines) = 2
    /\ ret.lines[1].text = "hunks_failed"
    /\ ret.results[1].result.applied_hunks # <<>>
    /\ ret.results[1].result.failed_hunks # <<>>
    /\ files[AppliedFiles[1]] = pre.files[AppliedFiles[1]]
    /\ ret.lines[2].text = "applied"
    /\ files[AppliedFiles[2]] # pre.files[AppliedFiles[2]]
    /\ ret.success_count = 1
    /\ ret.total_count = 2

\* The texts of the insert lines of some hunks, in hunk and line order.
RECURSIVE InsertLineTexts(_)
InsertLineTexts(hunks) ==
    IF hunks = <<>> THEN <<>>
    ELSE [k \in 1..Len(SelectSeq(Head(hunks).lines, LAMBDA hl : hl[1] = "+")) |->
             SelectSeq(Head(hunks).lines, LAMBDA hl : hl[1] = "+")[k][2]]
         \o InsertLineTexts(Tail(hunks))

\* C8: a file apply_patch creates holds the texts of the insert lines of all
\* hunks of its file change, in hunk and line order, joined by newlines (every
\* line newline-terminated, less exactly one newline at the end), so that
\* inserted empty lines at the end are kept.
C8_CreatedContent ==
    op = "apply_patch" /\ ret.kind = "summary" =>
        \A k \in 1..Len(ret.lines) :
            ret.lines[k].text = "created" =>
                FileAt(AppliedFiles[k], SegmentEnd(k))
                    = TextFile(Join(InsertLineTexts(ParseUnifiedDiff(arg.patch)[k].hunks), NL))

\* The paths apply_patch resolves for the paths of some file changes.
ResolvedTargets(paths, base_path) ==
    [k \in 1..Len(paths) |-> Absolute(ResolvePatchPath(paths[k], base_path))]

\* C10: every file change of the patch (one per block of the document) is
\* handed to _apply_patch_to_file exactly once, in document order, whatever
\* became of the ones before it, and the call returns the summary with one line
\* per file change.
C10_EveryFileAttempted ==
    op = "apply_patch" =>
        /\ ret.kind = "summary"
        /\ Len(ret.lines) = Len(arg.paths)
        /\ ret.total_count = Len(arg.paths)
        /\ AppliedFiles = ResolvedTargets(arg.paths, arg.base_path)

\* A file that cannot be read, then a file that is patched and written.
C10_Witness ==
    /\ op = "apply_patch"
    /\ ret.kind = "summary"
    /\ Len(ret.lines) = 2
    /\ ret.lines[1].text = "decode_error"
    /\ ret.lines[2].ok
    /\ \E j \in 1..Len(Segment(2)) : Segment(2)[j][1] = "write"

-----------------------------------------------------------------------------
(* Claims about the multi-edit engine *)

\* The target of the call.
EditTarget == Absolute(arg.file_path)

\* C4: multi_edit opens the target for writing at most once, and only after
\* validation passed and every edit applied; when it returns an error an existing
\* target has the content it had and a target that did not exist does not exist.
C4_AtomicMultiEdit ==
    op = "multi_edit" =>
        /\ FilesFollowLog
        /\ Len(WriteAttempts(log)) <= 1
        /\ WriteAttempts(log) # <<>> =>
              /\ WriteAttempts(log)[1][2] = EditTarget
              /\ ret.kind = "summary" \/ ret.text = "write_error"
        /\ ret.kind = "summary" => Len(ret.details) = Len(arg.edits)
        /\ ret.kind = "error" => FileNow(EditTarget) = FileAt(EditTarget, 0)
        /\ ret.kind = "error" => \A j \in 1..Len(log) : log[j][1] # "write"

\* The content a call has in memory after it read a text file: the text of
\* the file with its line endings read as "\n".
ContentRead(file) == UniversalNewlines(file.data)

\* The second edit raised on an existing file the first edit had changed in memory.
C4_Witness ==
    /\ op = "multi_edit"
    /\ ret = EditError("edit_failed", 2)
    /\ EditTarget \in DOMAIN pre.files
    /\ files[EditTarget] = pre.files[EditTarget]
    /\ ApplyContentEdit(ContentRead(pre.files[EditTarget]), arg.edits[1].old_string,
                        arg.edits[1].new_string, arg.edits[1].replace_all).new_content
          # ContentRead(pre.files[EditTarget])

\* The content the first edit of the batch makes of the original content.
AfterFirstEdit ==
    ApplyContentEdit(ContentRead(pre.files[EditTarget]), arg.edits[1].old_string,
                     arg.edits[1].new_string, arg.edits[1].replace_all)

\* The content the second edit makes of that.
AfterSecondEdit ==
    ApplyContentEdit(AfterFirstEdit.new_content, arg.edits[2].old_string,
                     arg.edits[2].new_string, arg.edits[2].replace_all)

\* A batch of two edits on an existing text file, the first applying to the
\* original content, the second having an old_string the original content lacks
\* and the content after the first edit has; nothing else stands in the way.
DependentBatch ==
    /\ op = "multi_edit"
    /\ Len(arg.edits) = 2
    /\ EditTarget \in DOMAIN pre.files
    /\ pre.files[EditTarget].kind = "text"
    /\ ~IsBinaryFile(pre, EditTarget)
    /\ EditTarget \notin env.readonly
    /\ \A k \in 1..2 : arg.edits[k].old_string # arg.edits[k].new_string
    /\ Contains(ContentRead(pre.files[EditTarget]), arg.edits[1].old_string)
    /\ arg.edits[2].old_string # <<>>
    /\ ~Contains(ContentRead(pre.files[EditTarget]), arg.edits[2].old_string)
    /\ ~AfterFirstEdit.raised
    /\ Contains(AfterFirstEdit.new_content, arg.edits[2].old_string)
    /\ ~AfterSecondEdit.raised

\* C5 as stated: such a batch is not rejected by validation and succeeds, the
\* file ending up with both edits applied.
C5_DependentBatchSucceeds ==
    DependentBatch =>
        /\ ret.kind = "summary"
        /\ files[EditTarget] = TextFile(AfterSecondEdit.new_content)

\* C5 as amended: such a batch is rejected by validation, which names the second
\* edit as the one whose old_string the file lacks; nothing is written and the
\* file keeps its content.
C5_DependentBatchRejected ==
    DependentBatch =>
        /\ ret = EditError("not_found", 2)
        /\ WriteAttempts(log) = <<>>
        /\ files = pre.files

C5_Witness == DependentBatch /\ ret.kind = "error"

\* What _validate_input answers when it rejects a batch.
ValidationErrors ==
    {"no_edits", "notebook", "makedirs_error", "new_file_old_string", "binary",
     "decode_error", "not_found", "same_strings"}

\* C6: a batch with an edit whose old_string equals its new_string, at any
\* position, the target existing or not, is rejected by validation: no edit is
\* applied and nothing is written.
C6_SameStringsRejected ==
    op = "multi_edit"
    /\ (\E k \in 1..Len(arg.edits) : arg.edits[k].old_string = arg.edits[k].new_string) =>
        /\ ret.kind = "error"
        /\ ret.text \in ValidationErrors
        /\ WriteAttempts(log) = <<>>
        /\ \A j \in 1..Len(log) : log[j][1] # "read"
        /\ files = pre.files

\* The second edit of a batch is the one with old_string = new_string, for a
\* target that does not exist.
C6_Witness ==
    /\ op = "multi_edit"
    /\ ret = EditError("same_strings", 2)
    /\ arg.edits[1].old_string # arg.edits[1].new_string
    /\ EditTarget \notin DOMAIN pre.files

\* C7: a single edit with replace_all that passes validation on an existing
\* text file that can be written replaces every occurrence of old_string, left
\* to right and none overlapping, by the text new_string as it stands, and
\* reports the number of occurrences.
C7_LiteralReplaceAll ==
    /\ op = "multi_edit"
    /\ Len(arg.edits) = 1
    /\ arg.edits[1].replace_all
    /\ EditTarget \in DOMAIN pre.files
    /\ ret.kind = "summary" \/ ret.text = "edit_failed"
    =>  /\ ret.kind = "summary"
        /\ files[EditTarget]
              = TextFile(SubAll(arg.edits[1].old_string, arg.edits[1].new_string,
                                ContentRead(pre.files[EditTarget]), 0))
        /\ ret.details
              = << [edit_index |-> 1,
                    occurrences |-> Len(FindAll(arg.edits[1].old_string,
                                                ContentRead(pre.files[EditTarget]), 0))] >>

-----------------------------------------------------------------------------
(* Claims about the summary of apply_patch *)

\* The file changes in whose course the target was written.
WrittenChanges ==
    {k \in 1..Cardinality(FileStarts) :
        \E j \in 1..Len(Segment(k)) :
            Segment(k)[j][1] = "write" /\ Segment(k)[j][2] = AppliedFiles[k]}

\* C11: the header of the summary gives success_count/total_count, total_count
\* being the number of file changes of the patch and success_count the number
\* of those whose file was created or written, so 0 <= success_count <=
\* total_count; it is followed by one line per file change, in document order,
\* marked as success exactly when the file was created or written.
C11_SummaryCounts ==
    op = "apply_patch" /\ ret.kind = "summary" =>
        /\ ret.total_count = Len(arg.paths)
        /\ ret.success_count = Cardinality(WrittenChanges)
        /\ 0 <= ret.success_count
        /\ ret.success_count <= ret.total_count
        /\ Len(ret.lines) = ret.total_count
        /\ \A k \in 1..Len(ret.lines) :
              /\ ret.lines[k].ok <=> k \in WrittenChanges
              /\ Absolute(ret.lines[k].file_path) = AppliedFiles[k]
              /\ AppliedFiles[k] = Absolute(ResolvePatchPath(arg.paths[k], arg.base_path))

\* A file that is created, then a file whose directory cannot be made: 1/2.
C11_Witness ==
    /\ op = "apply_patch"
    /\ ret.kind = "summary"
    /\ ret.success_count = 1
    /\ ret.total_count = 2
    /\ ret.lines[1].text = "created"
    /\ ret.lines[2].text = "makedirs_error"

-----------------------------------------------------------------------------
(* Claims about the directories multi_edit creates *)

\* C12: multi_edit creates the missing parent directories of a target that
\* does not exist only when validation passes: a batch that validation rejects
\* because the first edit's old_string is not empty, or because some edit has
\* old_string = new_string, leaves the file system as it was, with no new
\* directory.
C12_RejectedBatchMakesNoDirectory ==
    /\ op = "multi_edit"
    /\ ret.kind = "error"
    /\ ret.text \in {"new_file_old_string", "same_strings"}
    => /\ dirs = pre.dirs
       /\ files = pre.files
       /\ \A j \in 1..Len(log) : log[j][1] # "makedirs"

-----------------------------------------------------------------------------
(* Specification of the parser's loops, one iteration per step *)

MaxFragments == 3

\* A number with one digit more than int() converts.
LongDigits == [k \in 1..(IntMaxStrDigits + 1) |-> "1"]

\* Pieces of patch text: a '--- ' line alone, a header pair with two
\* different paths, a whole block, a block with /dev/null on both sides, a
\* deletion header, hunk headers that
\* match, that do not and that match with a number int() does not convert,
\* body lines, an unrecognised line, an empty line, the
\* no-newline marker.
ScanFragments ==
    { << <<"-", "-", "-", " ", "a", "/", "g">> >>,
      << <<"-", "-", "-", " ", "a", "/", "g">>, <<"+", "+", "+", " ", "b", "/", "f">> >>,
      << <<"-", "-", "-", " ", "a", "/", "f">>, <<"+", "+", "+", " ", "b", "/", "f">>,
         <<"@", "@", " ", "-", "1", " ", "+", "1", " ", "@", "@">>, <<"+", "c">> >>,
      << <<"-", "-", "-", " ">> \o DevNull, <<"+", "+", "+", " ">> \o DevNull >>,
      << <<"-", "-", "-", " ", "a", "/", "g">>, <<"+", "+", "+", " ">> \o DevNull >>,
      << <<"@", "@", " ", "-", "2", ",", "0", " ", "+", "2", " ", "@", "@">> >>,
      << <<"@", "@", " ", "x">> >>,
      << <<"@", "@", " ", "-">> \o LongDigits \o <<" ", "+", "1", " ", "@", "@">> >>,
      << <<"+", "c">> >>,
      << <<"x">> >>,
      << <<>> >>,
      << <<BS, " ", "N", "o">> >> }

\* patches = [], lines = patch_content.split('\n'), i = 0; `steps` counts the
\* iterations of the three loops, the test that ends a loop included.
ScanStart ==
    /\ op = "idle"
    /\ \E fragments \in SeqsUpTo(ScanFragments, MaxFragments) :
          \E patch \in {Join(Flatten(fragments), NL)} :
              arg' = [patch |-> patch, lines |-> Split(patch, NL)]
    /\ ret' = [steps |-> 0, i |-> 0, patches |-> <<>>, file_path |-> <<>>, hunks |-> <<>>,
               hunk_match |-> NoMatch, hunk_lines |-> <<>>]
    /\ op' = "scan_files"
    /\ UNCHANGED <<files, dirs, env, pre, log>>

\* One iteration of the outer loop, or its end.
FilesStep ==
    /\ op = "scan_files"
    /\ LET lines == arg.lines
           i == ret.i
       IN  IF i >= Len(lines)
           THEN op' = "scan_done" /\ ret' = [ret EXCEPT !.steps = @ + 1]
           ELSE IF ~StartsWith(lines[i + 1], FileHeader)
           THEN op' = op /\ ret' = [ret EXCEPT !.steps = @ + 1, !.i = i + 1]
           ELSE IF i + 1 >= Len(lines) \/ ~StartsWith(lines[i + 2], NewFileHeader)
           THEN op' = op /\ ret' = [ret EXCEPT !.steps = @ + 1, !.i = i + 2]
           ELSE \E file_path \in {TargetPath(HeaderPath(lines[i + 1], <<"a", "/">>),
                                             HeaderPath(lines[i + 2], <<"b", "/">>))} :
                   IF file_path = DevNull
                   THEN op' = op /\ ret' = [ret EXCEPT !.steps = @ + 1, !.i = i + 2]
                   ELSE /\ op' = "scan_hunks"
                        /\ ret' = [ret EXCEPT !.steps = @ + 1, !.i = i + 2, !.file_path = file_path,
                                              !.hunks = <<>>]
    /\ UNCHANGED <<arg, files, dirs, env, pre, log>>

\* One iteration of the loop over the hunks of a block, or its end with
\* "if hunks: patches.append(...)"; the function is left with ValueError when
\* int() raises on a group of a hunk header.
HunksStep ==
    /\ op = "scan_hunks"
    /\ LET lines == arg.lines
           i == ret.i
           Leave(j) ==
               /\ op' = "scan_files"
               /\ ret' = [ret EXCEPT !.steps = @ + 1, !.i = j,
                             !.patches = IF ret.hunks # <<>>
                                         THEN Append(@, [file_path |-> ret.file_path,
                                                         hunks |-> ret.hunks])
                                         ELSE @]
       IN  IF i >= Len(lines) THEN Leave(i)
           ELSE IF StartsWith(lines[i + 1], HunkHeader)
           THEN \E hunk_match \in {HunkMatch(lines[i + 1])} :
                   IF ~hunk_match.ok
                   THEN op' = op /\ ret' = [ret EXCEPT !.steps = @ + 1, !.i = i + 1]
                   ELSE IF hunk_match.raised
                   THEN op' = "scan_raised" /\ ret' = [ret EXCEPT !.steps = @ + 1]
                   ELSE /\ op' = "scan_body"
                        /\ ret' = [ret EXCEPT !.steps = @ + 1, !.i = i + 1, !.hunk_match = hunk_match,
                                              !.hunk_lines = <<>>]
           ELSE IF StartsWith(lines[i + 1], FileHeader) THEN Leave(i)
           ELSE IF i + 1 >= Len(lines) \/ StartsWith(lines[i + 2], FileHeader)
           THEN Leave(i + 1)
           ELSE op' = op /\ ret' = [ret EXCEPT !.steps = @ + 1, !.i = i + 1]
    /\ UNCHANGED <<arg, files, dirs, env, pre, log>>

\* One iteration of the loop over the body of a hunk in a variant that goes
\* on with the same line after a line that starts with a backslash.
BodyStepKeepsMarker ==
    /\ op = "scan_body"
    /\ LET lines == arg.lines
           i == ret.i
           Leave ==
               /\ op' = "scan_hunks"
               /\ ret' = [ret EXCEPT !.steps = @ + 1, !.hunks =
                             Append(@, [old_start |-> ret.hunk_match.old_start,
                                        old_count |-> ret.hunk_match.old_count,
                                        new_start |-> ret.hunk_match.new_start,
                                        new_count |-> ret.hunk_match.new_count,
                                        lines |-> ret.hunk_lines])]
       IN  IF i >= Len(lines) THEN Leave
           ELSE IF StartsWith(lines[i + 1], FileHeader) \/ StartsWith(lines[i + 1], HunkHeader)
           THEN Leave
           ELSE IF StartsWith(lines[i + 1], <<BS>>)
           THEN op' = op /\ ret' = [ret EXCEPT !.steps = @ + 1]
           ELSE IF StartsWith(lines[i + 1], <<" ">>) \/ StartsWith(lines[i + 1], <<"-">>)
                   \/ StartsWith(lines[i + 1], <<"+">>)
           THEN /\ op' = op
                /\ ret' = [ret EXCEPT !.steps = @ + 1, !.i = i + 1,
                              !.hunk_lines = Append(@, <<lines[i + 1][1], PyFrom(lines[i + 1], 1)>>)]
           ELSE IF lines[i + 1] = <<>>
           THEN op' = op /\ ret' = [ret EXCEPT !.steps = @ + 1, !.i = i + 1,
                                       !.hunk_lines = Append(@, <<" ", <<>>>>)]
           ELSE Leave
    /\ UNCHANGED <<arg, files, dirs, env, pre, log>>

\* One iteration of the loop over the body of a hunk, or its end with
\* hunks.append({...}).
BodyStep ==
    /\ op = "scan_body"
    /\ LET lines == arg.lines
           i == ret.i
           Leave ==
               /\ op' = "scan_hunks"
               /\ ret' = [ret EXCEPT !.steps = @ + 1, !.hunks =
                             Append(@, [old_start |-> ret.hunk_match.old_start,
                                        old_count |-> ret.hunk_match.old_count,
                                        new_start |-> ret.hunk_match.new_start,
                                        new_count |-> ret.hunk_match.new_count,
                                        lines |-> ret.hunk_lines])]
       IN  IF i >= Len(lines) THEN Leave
           ELSE IF StartsWith(lines[i + 1], FileHeader) \/ StartsWith(lines[i + 1], HunkHeader)
           THEN Leave
           ELSE IF StartsWith(lines[i + 1], <<BS>>)
           THEN op' = op /\ ret' = [ret EXCEPT !.steps = @ + 1, !.i = i + 1]
           ELSE IF StartsWith(lines[i + 1], <<" ">>) \/ StartsWith(lines[i + 1], <<"-">>)
                   \/ StartsWith(lines[i + 1], <<"+">>)
           THEN /\ op' = op
                /\ ret' = [ret EXCEPT !.steps = @ + 1, !.i = i + 1,
                              !.hunk_lines = Append(@, <<lines[i + 1][1], PyFrom(lines[i + 1], 1)>>)]
           ELSE IF lines[i + 1] = <<>>
           THEN op' = op /\ ret' = [ret EXCEPT !.steps = @ + 1, !.i = i + 1,
                                       !.hunk_lines = Append(@, <<" ", <<>>>>)]
           ELSE Leave
    /\ UNCHANGED <<arg, files, dirs, env, pre, log>>

NextScan == ScanStart \/ FilesStep \/ HunksStep \/ BodyStep

SpecScan == InitParse /\ [][NextScan]_vars

\* Claims about the parser's loops

Scanning == op \in {"scan_files", "scan_hunks", "scan_body"}

\* How deep in the three loops a position is.
LoopDepth(position) ==
    IF position = "scan_body" THEN 3
    ELSE IF position = "scan_hunks" THEN 2
    ELSE IF position = "scan_files" THEN 1
    ELSE 0

\* An iteration advances the line index, or leaves its loop for the enclosing
\* one at the same index.
ScanAdvances ==
    Scanning => \/ ret'.i > ret.i
                \/ ret'.i = ret.i /\ LoopDepth(op') < LoopDepth(op)

\* The input has a '--- ' line directly followed by a '+++ ' line and, after
\* them, a line that matches the hunk header pattern.
HasBlock(lines) ==
    \E j \in 1..Len(lines) - 2 :
        /\ StartsWith(lines[j], FileHeader)
        /\ StartsWith(lines[j + 1], NewFileHeader)
        /\ \E m \in j + 2..Len(lines) : HunkMatch(lines[m]).ok

\* The scan is within its bounds and, when over, has the result of
\* _parse_unified_diff, which is empty for an input without a valid block.
ScanWithinBounds ==
    /\ Scanning => ret.i <= Len(arg.lines) + 1
    /\ Scanning \/ op \in {"scan_done", "scan_raised"} => ret.steps <= 2 * Len(arg.lines) + 3
    /\ op = "scan_raised" => ParseUnifiedDiff(arg.patch) = ParseRaised
    /\ op = "scan_done" =>
          /\ ret.patches = ParseUnifiedDiff(arg.patch)
          /\ ~HasBlock(arg.lines) => ret.patches = <<>>

\* The same, and the function has not raised.
ScanResult == ScanWithinBounds /\ op # "scan_raised"

\* C13: _parse_unified_diff terminates on every finite input without raising:
\* every iteration of its three nested loops advances the line index or leaves
\* the loop for the enclosing one, which advances it; the index never passes
\* the end of the input by more than one, so the number of iterations is bounded
\* by the number of lines whatever the lines are; an input without a valid
\* block yields the empty list.
C13_ParserTerminates == []ScanResult /\ [][ScanAdvances]_vars

-----------------------------------------------------------------------------
(* Claims about the hunks the parser yields *)

\* C14: every hunk that _parse_unified_diff yields has an old_count equal to
\* the number of its line operations tagged context or delete.
C14_OldCountIsOldLines ==
    op = "parse_block" =>
        \A k \in 1..Len(ret) : \A h \in 1..Len(ret[k].hunks) :
            ret[k].hunks[h].old_count = MatchCount(ret[k].hunks[h].lines)

-----------------------------------------------------------------------------
(* Claims about the summary of multi_edit *)

\* What the same call returns when the target exists as an empty file.
SummaryOfUpdate ==
    MultiEdit(arg.file_path, arg.edits,
              [files |-> (EditTarget :> TextFile(<<>>)) @@ pre.files,
               dirs |-> dirs, log |-> <<>>], env).ret

\* C15: the summary of a successful multi_edit has one occurrence count per
\* edit, in the order of the edits, and says whether the file was created or
\* updated: the summary for a file that was created differs from the summary
\* the same edits give as an update of an existing file.
C15_SummaryTellsCreation ==
    op = "multi_edit" /\ ret.kind = "summary" =>
        /\ Len(ret.details) = Len(arg.edits)
        /\ \A k \in 1..Len(ret.details) : ret.details[k].edit_index = k
        /\ EditTarget \notin DOMAIN pre.files /\ SummaryOfUpdate.kind = "summary" =>
              SummaryOfUpdate # ret

-----------------------------------------------------------------------------
(* Specification of two calls at once on one existing file *)

Procs == {"A", "B"}

\* The calls: a patch that inserts a line, a patch that replaces a line, an
\* edit that removes text, an edit that replaces all matches of a text.
RaceCalls ==
    { [tool |-> "apply_patch", edits |-> <<>>,
       hunks |-> ParseUnifiedDiff(PatchText(<< <<<<"f">>, <<HunkInsert>>>> >>))[1].hunks],
      [tool |-> "apply_patch", edits |-> <<>>,
       hunks |-> ParseUnifiedDiff(PatchText(<< <<<<"f">>, <<HunkReplace2>>>> >>))[1].hunks],
      [tool |-> "multi_edit", hunks |-> <<>>,
       edits |-> <<[old_string |-> <<"a">>, new_string |-> <<>>, replace_all |-> FALSE]>>],
      [tool |-> "multi_edit", hunks |-> <<>>,
       edits |-> <<[old_string |-> <<"b">>, new_string |-> <<"y">>, replace_all |-> TRUE]>>] }

\* The file system as the operators of a call see it at this moment.
Disk == [files |-> files, dirs |-> dirs, log |-> <<>>]

\* The file /w/f holds "a\nb\n".
InitRace ==
    /\ Idle
    /\ files = (PathF :> TextFile(<<"a", NL, "b", NL>>))
    /\ dirs = {Root, Cwd}
    /\ env = [blocked |-> {}, readonly |-> {}]
    /\ pre = [files |-> files, dirs |-> dirs]

\* The size of the buffer of a binary file object (st_blksize of the file),
\* and the least size readall() gives its buffer when it cannot go by the
\* size of the file or has to enlarge it (SMALLCHUNK).
BlockSize == 4096
SmallChunk == 8192

\* Two calls start on /w/f, each a thread of its own.  A call is taken one
\* system call on the file per step: multi_edit begins with _validate_input
\* (os.path.exists, the binary check, the read), then both tools test the
\* path, read the file, open it for writing and write.  A read of the whole
\* file is the open, where readall() takes the size of the file for its
\* buffer, and one read() after the other until one returns nothing.  Of a
\* call, cap is the size of that buffer, buf the bytes the read under way has
\* got so far, read the text of the last whole read.
RaceStart ==
    /\ op = "idle"
    /\ arg' \in [Procs -> RaceCalls]
    /\ ret' = [p \in Procs |->
                 [pc |-> IF arg'[p].tool = "multi_edit" THEN "v_exists" ELSE "exists",
                  cap |-> 0, buf |-> <<>>, read |-> <<>>, data |-> <<>>, result |-> <<>>]]
    /\ op' = "race"
    /\ UNCHANGED <<files, dirs, env, pre, log>>

\* os.path.exists(path), in _validate_input and again in the tool: the file is
\* there at every moment, no call removes it.
RaceExists(p) ==
    /\ op = "race"
    /\ ret[p].pc \in {"v_exists", "exists"}
    /\ PathExists(Disk, PathF)
    /\ ret' = [ret EXCEPT ![p].pc = IF ret[p].pc = "v_exists" THEN "v_binary" ELSE "size",
                          ![p].buf = <<>>]
    /\ UNCHANGED <<op, arg, files, dirs, env, pre, log>>

\* One read() of f.read(1024) on the file opened 'rb': the bytes the file
\* holds at this moment from the offset reached, as far as the buffer has room.
BinaryChunk(p) == PySlice(files[PathF].data, Len(ret[p].buf), BlockSize)

\* _is_binary_file in _validate_input, one read() per step: f.read(1024)
\* reads until it has 1024 bytes or a read() returns nothing, then the null
\* byte is looked for in the first 1024 bytes read.
RaceBinary(p) ==
    /\ op = "race"
    /\ ret[p].pc = "v_binary"
    /\ \E chunk \in {ret[p].buf \o BinaryChunk(p)} :
          IF BinaryChunk(p) # <<>> /\ Len(chunk) < 1024
          THEN /\ ret' = [ret EXCEPT ![p].buf = chunk]
               /\ UNCHANGED log
          ELSE /\ ret' = IF NulInFirstBytes(chunk)
                         THEN [ret EXCEPT ![p].pc = "done", ![p].buf = <<>>,
                                          ![p].result = EditError("binary", 0)]
                         ELSE [ret EXCEPT ![p].pc = "v_size", ![p].buf = <<>>]
               /\ log' = Append(log, <<"race_validate", p>>)
    /\ UNCHANGED <<op, arg, files, dirs, env, pre>>

\* open(path, 'r') and the start of f.read(): readall() takes the size of the
\* file (fstat) and makes its buffer one byte larger, or SMALLCHUNK bytes
\* large for an empty file.
RaceSize(p) ==
    /\ op = "race"
    /\ ret[p].pc \in {"v_size", "size"}
    /\ ret' = [ret EXCEPT ![p].pc = IF ret[p].pc = "v_size" THEN "v_read" ELSE "read",
                          ![p].buf = <<>>,
                          ![p].cap = IF Len(files[PathF].data) > 0
                                     THEN Len(files[PathF].data) + 1
                                     ELSE SmallChunk]
    /\ UNCHANGED <<op, arg, files, dirs, env, pre, log>>

\* The size of the buffer at the next read(): a full buffer is enlarged
\* first (new_buffersize, for a buffer of at most 65536 bytes).
ReadCap(p) ==
    IF Len(ret[p].buf) >= ret[p].cap
    THEN Len(ret[p].buf) + Max(SmallChunk, 256 + Len(ret[p].buf))
    ELSE ret[p].cap

\* One read() of f.read(): the bytes the file holds at this moment from the
\* offset the read has reached, as far as the buffer has room.  f.read()
\* calls read() until one returns nothing.
ReadChunk(p) == PySlice(files[PathF].data, Len(ret[p].buf), ReadCap(p))

\* The text f.read() returns once a read() returned nothing.
TextRead(p) == [error |-> "none", data |-> UniversalNewlines(ret[p].buf)]

\* One read() of the read of _validate_input; after the last one the verdict.
RaceValidate(p) ==
    /\ op = "race"
    /\ ret[p].pc = "v_read"
    /\ IF ReadChunk(p) # <<>>
       THEN /\ ret' = [ret EXCEPT ![p].buf = @ \o ReadChunk(p), ![p].cap = ReadCap(p)]
            /\ UNCHANGED log
       ELSE /\ \E v \in {ValidateRead(arg[p].edits, TextRead(p), Disk)} :
                  ret' = [ret EXCEPT ![p].pc = IF v.valid THEN "exists" ELSE "done",
                                     ![p].buf = <<>>,
                                     ![p].read = TextRead(p).data,
                                     ![p].result = IF v.valid THEN <<>>
                                                   ELSE EditError(v.message, v.index)]
            /\ log' = Append(log, <<"race_validate", p>>)
    /\ UNCHANGED <<op, arg, files, dirs, env, pre>>

\* One read() of the whole-file read of a call; after the last one what the
\* call makes of the content in memory: the text it is going to write, or the
\* failure it returns.
RaceRead(p) ==
    /\ op = "race"
    /\ ret[p].pc = "read"
    /\ IF ReadChunk(p) # <<>>
       THEN /\ ret' = [ret EXCEPT ![p].buf = @ \o ReadChunk(p), ![p].cap = ReadCap(p)]
            /\ UNCHANGED log
       ELSE \E read \in {TextRead(p)} :
            \E r \in {IF arg[p].tool = "apply_patch"
                      THEN PatchRead(PathF, arg[p].hunks, read, Disk, env)
                      ELSE EditExisting(PathF, arg[p].edits, read, Disk, env)} :
            \E result \in {IF arg[p].tool = "apply_patch" THEN r.result ELSE r.ret} :
               /\ ret' = [ret EXCEPT ![p] =
                             IF r.st.log # <<>>
                             THEN [pc |-> "open", cap |-> 0, buf |-> <<>>, read |-> read.data,
                                   data |-> r.st.log[1][3], result |-> result]
                             ELSE [pc |-> "done", cap |-> 0, buf |-> <<>>, read |-> read.data,
                                   data |-> <<>>, result |-> result]]
               /\ log' = Append(log, <<"race_read", p, read.data>>)
    /\ UNCHANGED <<op, arg, files, dirs, env, pre>>

\* open(file_path, 'w'): the file is truncated.
RaceOpen(p) ==
    /\ op = "race"
    /\ ret[p].pc = "open"
    /\ files' = [files EXCEPT ![PathF] = TextFile(<<>>)]
    /\ ret' = [ret EXCEPT ![p].pc = "flush"]
    /\ log' = Append(log, <<"race_open", p>>)
    /\ UNCHANGED <<op, arg, dirs, env, pre>>

\* f.write(...) and the close of the file: the text goes to the start of the
\* file, over what is there, and what the file holds beyond it stays.
RaceFlush(p) ==
    /\ op = "race"
    /\ ret[p].pc = "flush"
    /\ files' = [files EXCEPT ![PathF] =
                    TextFile(ret[p].data \o PyFrom(files[PathF].data, Len(ret[p].data)))]
    /\ ret' = [ret EXCEPT ![p].pc = "done"]
    /\ log' = Append(log, <<"race_write", p, ret[p].data>>)
    /\ UNCHANGED <<op, arg, dirs, env, pre>>

NextRace ==
    \/ RaceStart
    \/ \E p \in Procs : RaceExists(p)
    \/ \E p \in Procs : RaceBinary(p)
    \/ \E p \in Procs : RaceSize(p)
    \/ \E p \in Procs : RaceValidate(p)
    \/ \E p \in Procs : RaceRead(p)
    \/ \E p \in Procs : RaceOpen(p)
    \/ \E p \in Procs : RaceFlush(p)

SpecRace == InitRace /\ [][NextRace]_vars

\* Claims about two calls at once

RaceWrites == {j \in 1..Len(log) : log[j][1] = "race_write"}

LastRaceWrite == log[CHOOSE j \in RaceWrites : \A m \in RaceWrites : m <= j]

\* What a call makes of a content.
CallOutput(call, content) ==
    IF call.tool = "apply_patch" THEN ApplyHunks(content, call.hunks, 1, <<>>, <<>>).content
    ELSE ApplyEdits(content, call.edits, 1, <<>>).content

\* Every read of the file was over before the first open for writing (the
\* log has a read at the moment it is complete).
ReadsBeforeWrites ==
    \A j, m \in 1..Len(log) :
        log[j][1] \in {"race_read", "race_validate"} /\ log[m][1] = "race_open" => j < m

\* C16: two calls at once on one path, each reading the whole file and later
\* writing the whole file, no lock: whatever the interleaving, the file ends up
\* holding the complete output of the call that wrote last, computed from the
\* content that call read; when both reads come before both writes the file
\* holds what the last writer alone makes of the original content, the other
\* call's change is lost, and both calls report success.
C16_LastWriterWins ==
    /\ op = "race"
    /\ \A p \in Procs : ret[p].pc = "done"
    /\ RaceWrites # {}
    => /\ files[PathF].data = LastRaceWrite[3]
       /\ LastRaceWrite[3] = CallOutput(arg[LastRaceWrite[2]], ret[LastRaceWrite[2]].read)
       /\ Cardinality(RaceWrites) = 2 /\ ReadsBeforeWrites =>
             /\ files[PathF].data = CallOutput(arg[LastRaceWrite[2]], ContentRead(pre.files[PathF]))
             /\ \A p \in Procs : IF arg[p].tool = "apply_patch"
                                   THEN ret[p].result.success
                                   ELSE ret[p].result.kind = "summary"

-----------------------------------------------------------------------------
(* Claims about the headers of a block *)

\* Line j (1-based) opens a valid block: a '--- ' line, a '+++ ' line, a path
\* that is not /dev/null, then a hunk header that matches.
ValidBlockAt(lines, j) ==
    /\ j + 2 <= Len(lines)
    /\ StartsWith(lines[j], FileHeader)
    /\ StartsWith(lines[j + 1], NewFileHeader)
    /\ TargetPath(HeaderPath(lines[j], <<"a", "/">>),
                  HeaderPath(lines[j + 1], <<"b", "/">>)) # DevNull
    /\ HunkMatch(lines[j + 2]).ok

\* C17: when a '--- ' line is not directly followed by a '+++ ' line the parser
\* gives the block up and goes on with the line directly after the '--- ' line,
\* skipping nothing else: when that next line is the '--- ' header of a valid
\* block, that block is parsed.
C17_ResumesAfterLoneHeader ==
    /\ op = "scan_done"
    /\ Len(arg.lines) >= 2
    /\ StartsWith(arg.lines[1], FileHeader)
    /\ ValidBlockAt(arg.lines, 2)
    => /\ ret.patches # <<>>
       /\ ret.patches[1].file_path = TargetPath(HeaderPath(arg.lines[2], <<"a", "/">>),
                                                HeaderPath(arg.lines[3], <<"b", "/">>))

\* The paths on the two sides of the header pair at lines j and j + 1.
OldSide(lines, j) == HeaderPath(lines[j], <<"a", "/">>)
NewSide(lines, j) == HeaderPath(lines[j + 1], <<"b", "/">>)

\* The '--- ' lines before line m.
HeadersBefore(lines, m) == {j \in 1..m - 1 : StartsWith(lines[j], FileHeader)}

\* The matching hunk headers whose nearest '--- ' line before them opens a
\* header pair with a path other than /dev/null on one side at least.
OwnedHunkLines(lines) ==
    {m \in 1..Len(lines) :
        /\ HunkMatch(lines[m]).ok
        /\ HeadersBefore(lines, m) # {}
        /\ \E j \in HeadersBefore(lines, m) :
              /\ \A n \in HeadersBefore(lines, m) : n <= j
              /\ j + 1 < m
              /\ StartsWith(lines[j + 1], NewFileHeader)
              /\ ~(OldSide(lines, j) = DevNull /\ NewSide(lines, j) = DevNull)}

RECURSIVE HunkTotal(_)
HunkTotal(patches) ==
    IF patches = <<>> THEN 0 ELSE Len(Head(patches).hunks) + HunkTotal(Tail(patches))

\* C18: the path of a file change is the new-side path of its block unless that
\* is /dev/null, and then the old-side path (a deletion patch becomes ordinary
\* hunks for the old path); when both sides are /dev/null the block yields no
\* file change and its hunks go to no other file.
C18_BlockPath ==
    op = "scan_done" =>
        /\ Len(arg.lines) >= 3 /\ StartsWith(arg.lines[1], FileHeader)
           /\ StartsWith(arg.lines[2], NewFileHeader) /\ HunkMatch(arg.lines[3]).ok
           => IF NewSide(arg.lines, 1) # DevNull
              THEN ret.patches # <<>> /\ ret.patches[1].file_path = NewSide(arg.lines, 1)
              ELSE IF OldSide(arg.lines, 1) # DevNull
              THEN ret.patches # <<>> /\ ret.patches[1].file_path = OldSide(arg.lines, 1)
              ELSE \A k \in 1..Len(ret.patches) :
                      \E j \in 4..Len(arg.lines) - 2 :
                          /\ ValidBlockAt(arg.lines, j)
                          /\ ret.patches[k].file_path \in {NewSide(arg.lines, j), OldSide(arg.lines, j)}
        /\ \A k \in 1..Len(ret.patches) : ret.patches[k].file_path # DevNull
        /\ HunkTotal(ret.patches) <= Cardinality(OwnedHunkLines(arg.lines))

\* A block for f with one hunk, then a block with /dev/null on both sides and
\* a hunk header after it: one file change, for f, with one hunk.
C18_Witness ==
    /\ op = "scan_done"
    /\ \E j \in 3..Len(arg.lines) - 2 :
          /\ StartsWith(arg.lines[j], FileHeader)
          /\ StartsWith(arg.lines[j + 1], NewFileHeader)
          /\ OldSide(arg.lines, j) = DevNull
          /\ NewSide(arg.lines, j) = DevNull
          /\ HunkMatch(arg.lines[j + 2]).ok
    /\ Len(ret.patches) = 1
    /\ ret.patches[1].file_path = <<"f">>
    /\ Len(ret.patches[1].hunks) = 1

-----------------------------------------------------------------------------
(* Claims about blocks for the same path *)

\* The patch has two blocks, both for the same path.
RepeatedPath ==
    /\ op = "apply_patch"
    /\ ret.kind = "summary"
    /\ Len(arg.paths) = 2
    /\ arg.paths[1] = arg.paths[2]

\* The files once the first file change is over, by the log.
FilesAfterFirst ==
    IF FileAt(AppliedFiles[1], SegmentEnd(1)) = AbsentFile THEN pre.files
    ELSE (AppliedFiles[1] :> FileAt(AppliedFiles[1], SegmentEnd(1))) @@ pre.files

\* The second block applied on its own to the files the first one left.
SecondAlone ==
    ApplyPatchToFile(ResolvePatchPath(arg.paths[2], arg.base_path),
                     ParseUnifiedDiff(arg.patch)[2].hunks,
                     [files |-> FilesAfterFirst, dirs |-> dirs, log |-> <<>>], env)

SecondAsAlone(alone) ==
    /\ ret.lines[2].ok = alone.result.success
    /\ ret.lines[2].text = alone.result.text
    /\ ret.results[2].result = alone.result
    /\ files = alone.st.files

\* C19: repeated paths are not merged: two blocks for one path give two file
\* changes in order, the second is applied to the content the first left on
\* disk (what the first wrote when it succeeded or created the file, the
\* original when it failed), and each has its own line and its own count in
\* the summary.
C19_RepeatedPathsInTurn ==
    RepeatedPath =>
        /\ Cardinality(FileStarts) = 2
        /\ AppliedFiles[1] = AppliedFiles[2]
        /\ ret.total_count = 2
        /\ Len(ret.lines) = 2
        /\ ret.success_count = Cardinality({k \in 1..2 : ret.lines[k].ok})
        /\ ~ret.lines[1].ok => FilesAfterFirst = pre.files
        /\ SecondAsAlone(SecondAlone)

\* Line 1 replaced by the first block; the second block, which asks for the
\* same replacement, finds the line changed and fails.
C19_Witness ==
    /\ RepeatedPath
    /\ ret.lines[1].text = "applied"
    /\ ret.lines[2].text = "hunks_failed"
    /\ ret.success_count = 1

-----------------------------------------------------------------------------
(* Claims about the position a hunk matches at *)

\* The texts of the context and delete lines of a hunk, in order.
RECURSIVE OldTexts(_)
OldTexts(hunk_lines) ==
    IF hunk_lines = <<>> THEN <<>>
    ELSE IF IsOld(Head(hunk_lines)) THEN <<Head(hunk_lines)[2]>> \o OldTexts(Tail(hunk_lines))
    ELSE OldTexts(Tail(hunk_lines))

\* The k-th old text is line insertion_point + k of the lines, counting k from 0
\* and the lines from 0: there is room for all of them and each is the same text.
MatchesAt(lines, old_texts, insertion_point) ==
    /\ insertion_point + Len(old_texts) <= Len(lines)
    /\ \A k \in 1..Len(old_texts) :
          /\ insertion_point + k >= 1
          /\ lines[insertion_point + k] = old_texts[k]

\* C20: _apply_hunk_to_content succeeds exactly when insertionPoint +
\* matchCount is at most the number of lines and the text of the k-th context
\* or delete line equals line insertionPoint + k of the content, for every k;
\* it never succeeds by a match at another offset.
C20_MatchesAtInsertionPoint ==
    op = "apply_hunk" =>
        (ret.success <=> MatchesAt(HunkFileLines(arg.content), OldTexts(arg.hunk.lines),
                                   arg.hunk.old_start - 1))

-----------------------------------------------------------------------------
(* Claims about the content a successful hunk returns *)

\* What the replay of a hunk emits: the texts of its context and insert lines.
RECURSIVE NewTexts(_)
NewTexts(hunk_lines) ==
    IF hunk_lines = <<>> THEN <<>>
    ELSE IF Head(hunk_lines)[1] \in {" ", "+"}
    THEN <<Head(hunk_lines)[2]>> \o NewTexts(Tail(hunk_lines))
    ELSE NewTexts(Tail(hunk_lines))

\* The lines before the insertion point (none when it is before the first
\* line), the replayed hunk, the lines after the matched span.
ExpectedLines(lines, hunk_lines, insertion_point) ==
    SubSeq(lines, 1, Max(insertion_point, 0))
        \o NewTexts(hunk_lines)
        \o SubSeq(lines, Max(insertion_point, 0) + MatchCount(hunk_lines) + 1, Len(lines))

\* C21: when _apply_hunk_to_content succeeds, for any old_start from 0 on, its
\* output is the input lines before the insertion point, then the replayed
\* hunk (context lines copied, delete lines dropped, insert texts emitted), then
\* the input lines after the matched span; so the output has as many lines as
\* the input less the delete lines plus the insert lines, and no input line
\* comes twice.
C21_SuccessfulHunkOutput ==
    op = "apply_hunk" /\ ret.success =>
        /\ ret.content = Join(ExpectedLines(HunkFileLines(arg.content), arg.hunk.lines,
                                            arg.hunk.old_start - 1), NL)
        /\ ret.content # <<>> =>
              Len(Split(ret.content, NL)) =
                  Len(HunkFileLines(arg.content)) - CountTag(arg.hunk.lines, {"-"})
                      + CountTag(arg.hunk.lines, {"+"})


-----------------------------------------------------------------------------
(* Claims about single replacements in a batch of edits *)

OccursAt(content, sub, at) == SubSeq(content, at + 1, at + Len(sub)) = sub

Occurs(content, sub) == \E at \in 0..(Len(content) - Len(sub)) : OccursAt(content, sub, at)

\* The content with its leftmost occurrence of old_string replaced, every
\* other character, later occurrences included, staying as it is.
FirstReplaced(content, old_string, new_string) ==
    LET at == CHOOSE n \in 0..(Len(content) - Len(old_string)) :
                  /\ OccursAt(content, old_string, n)
                  /\ \A m \in 0..(n - 1) : ~OccursAt(content, old_string, m)
    IN  SubSeq(content, 1, at) \o new_string
            \o SubSeq(content, at + Len(old_string) + 1, Len(content))

\* Single replacements done in turn from edit k on, each on what the edits
\* before it left, up to the first edit whose old_string is absent.
RECURSIVE SingleEdits(_, _, _)
SingleEdits(content, edits, k) ==
    IF k > Len(edits) THEN [failed |-> 0, content |-> content]
    ELSE IF ~Occurs(content, edits[k].old_string) THEN [failed |-> k, content |-> content]
    ELSE SingleEdits(FirstReplaced(content, edits[k].old_string, edits[k].new_string),
                     edits, k + 1)

\* The content the edits start from: the file's, or the empty string for a new file.
EditStart == IF EditTarget \in DOMAIN pre.files THEN ContentRead(pre.files[EditTarget]) ELSE <<>>

\* The call got as far as the loop over the edits.
EditsTried ==
    op = "multi_edit" /\ (ret.kind = "summary" \/ ret.text \in {"edit_failed", "write_error"})

SingleEditsOnly == \A k \in 1..Len(arg.edits) : ~arg.edits[k].replace_all

\* C22: an edit with replace_all false replaces exactly the first occurrence of
\* its old_string in the content as the preceding edits left it, every other
\* occurrence staying; when that content lacks the old_string the whole call
\* fails at that edit, reporting its 1-based index, no later edit is applied
\* and the file is not written.
C22_SingleReplacement ==
    EditsTried /\ SingleEditsOnly =>
        IF SingleEdits(EditStart, arg.edits, 1).failed # 0
        THEN /\ ret = EditError("edit_failed", SingleEdits(EditStart, arg.edits, 1).failed)
             /\ WriteAttempts(log) = <<>>
             /\ files = pre.files
        ELSE ret.kind = "summary" =>
                /\ FileNow(EditTarget) = TextFile(SingleEdits(EditStart, arg.edits, 1).content)
                /\ ret.details = [k \in 1..Len(arg.edits) |-> [edit_index |-> k, occurrences |-> 1]]

\* The second of two single replacements fails on what the first one left of
\* a file that had its old_string.
C22_Witness ==
    /\ EditsTried /\ SingleEditsOnly
    /\ ret = EditError("edit_failed", 2)
    /\ Occurs(EditStart, arg.edits[2].old_string)

\* A single replacement in a file with several occurrences of its old_string.
C22_WitnessFirstOnly ==
    /\ EditsTried /\ SingleEditsOnly
    /\ ret.kind = "summary"
    /\ arg.edits[1].old_string = <<"x">>
    /\ Occurs(FileNow(EditTarget).data, <<"x">>)


\* The edits done in turn from edit k on with new_string inserted as it
\* stands: every occurrence with replace_all, the leftmost one without, up to
\* the first single replacement whose old_string is absent.
RECURSIVE LiteralEdits(_, _, _)
LiteralEdits(content, edits, k) ==
    IF k > Len(edits) THEN [failed |-> 0, content |-> content]
    ELSE IF edits[k].replace_all
    THEN LiteralEdits(SubAll(edits[k].old_string, edits[k].new_string, content, 0),
                      edits, k + 1)
    ELSE IF ~Occurs(content, edits[k].old_string) THEN [failed |-> k, content |-> content]
    ELSE LiteralEdits(FirstReplaced(content, edits[k].old_string, edits[k].new_string),
                      edits, k + 1)

NewTarget == op = "multi_edit" /\ EditTarget \notin DOMAIN pre.files

NoTemplate == \A k \in 1..Len(arg.edits) : ~Occurs(arg.edits[k].new_string, <<BS>>)

\* C23: for a target that does not exist, multi_edit creates the file only
\* when the first edit's old_string is empty, and the created content is what
\* the edits make, in order, of the empty string; when the first old_string is
\* not empty the call fails with a validation message and no file is created.
C23_NewFileFromEdits ==
    NewTarget =>
        /\ arg.edits # <<>> /\ arg.edits[1].old_string # <<>> =>
              /\ ret.kind = "error"
              /\ ret.text \in ValidationErrors
              /\ EditTarget \notin DOMAIN files
              /\ WriteAttempts(log) = <<>>
        /\ EditTarget \in DOMAIN files =>
              /\ arg.edits[1].old_string = <<>>
              /\ LiteralEdits(<<>>, arg.edits, 1).failed = 0
              /\ files[EditTarget] = TextFile(LiteralEdits(<<>>, arg.edits, 1).content)


-----------------------------------------------------------------------------
(* Claims about several hunks of one file *)

\* C24: the hunks a differ writes for two changes of a content, both numbered
\* by the lines of the original, applied in order to the evolving text, both
\* match and give the changed content, also when the first changes the number
\* of lines.
C24_DifferHunksApply ==
    op = "diff_apply_hunks" =>
        /\ ret.failed_hunks = <<>>
        /\ ret.content = arg.expected

\* The first hunk leaves the number of lines as it is.
SameLength == arg.hunks[1].old_count = arg.hunks[1].new_count


-----------------------------------------------------------------------------
(* Claims about the lines of a patch text *)

\* C25: a patch text parses to the same file changes with and without a final
\* newline: the empty piece after the newline adds no context line.
C25_FinalNewlineIgnored ==
    op = "parse_block" => ParseUnifiedDiff(arg.patch \o <<NL>>) = ret


\* Body line k deletes a line whose text starts with "-- ": it is written
\* with '--- ' in front, and no '+++ ' line follows it as one follows the
\* '--- ' line of a file header.
DeletesDashLine(k) ==
    /\ StartsWith(arg.body[k], FileHeader)
    /\ k = Len(arg.body) \/ ~StartsWith(arg.body[k + 1], NewFileHeader)

\* C26: a delete line whose text starts with "-- " does not end the hunk body:
\* it stays in its hunk as a Delete LineOp with that text, and the body lines
\* after it are LineOps of the same hunk.
C26_DashLineStaysInHunk ==
    op = "parse_block" =>
        \A k \in 1..Len(arg.body) :
            DeletesDashLine(k) =>
                /\ Len(ret) = 1
                /\ Len(ret[1].hunks) = 1
                /\ \E at \in 1..Len(ret[1].hunks[1].lines) :
                      /\ ret[1].hunks[1].lines[at] = <<"-", Tail(arg.body[k])>>
                      /\ SubSeq(ret[1].hunks[1].lines, at + 1, Len(ret[1].hunks[1].lines))
                            = BodyLineOps(SubSeq(arg.body, k + 1, Len(arg.body)))


-----------------------------------------------------------------------------
(* Claims about the final newline *)

\* The hunk neither deletes the last piece of the split content nor inserts
\* after it: its old lines end before the last piece.  With old_start 0 the
\* code's index is the last piece itself, which only a hunk without old lines
\* leaves alone.
LeavesLastAlone(content, hunk) ==
    /\ Max(hunk.old_start - 1, 0) + MatchCount(hunk.lines) <= Len(Split(content, NL)) - 1
    /\ hunk.old_start = 0 => MatchCount(hunk.lines) = 0

SameEnding(content, result) == EndsWith(result, <<NL>>) <=> EndsWith(content, <<NL>>)

\* What the first hunk of two makes of the content.
AfterFirstHunk == ApplyHunkToContent(arg.content, arg.hunks[1]).content

\* One hunk, or two in turn, applied with success and leaving the last piece alone.
LastPieceKept ==
    \/ op = "apply_hunk" /\ ret.success /\ LeavesLastAlone(arg.content, arg.hunk)
    \/ /\ op = "diff_apply_hunks" /\ ret.failed_hunks = <<>>
       /\ LeavesLastAlone(arg.content, arg.hunks[1])
       /\ LeavesLastAlone(AfterFirstHunk, arg.hunks[2])

\* Splitting on newline and joining again is the identity, and the discard of
\* a trailing empty piece never removes anything.
SplitJoinIdentity ==
    /\ HunkFileLines(arg.content) = Split(arg.content, NL)
    /\ Join(HunkFileLines(arg.content), NL) = arg.content

\* C27 as stated: after successfully applied hunks none of which inserts or
\* deletes at the last piece of the line sequence, the final content ends in
\* a newline exactly when the original content did, splitting and joining
\* being the identity and the discard of a trailing empty piece removing
\* nothing.
C27_FinalNewlineKept ==
    LastPieceKept => SameEnding(arg.content, ret.content) /\ SplitJoinIdentity

\* C27 as amended: the same when neither the original content nor the final
\* content is empty.
C27_FinalNewlineKeptNonEmpty ==
    LastPieceKept /\ arg.content # <<>> /\ ret.content # <<>> =>
        SameEnding(arg.content, ret.content) /\ SplitJoinIdentity

\* A hunk that changes the lines of a content without a final newline, and
\* two hunks in turn on a content with one.
C27_Witness ==
    /\ LastPieceKept
    /\ ret.content # arg.content
    /\ \/ op = "apply_hunk" /\ arg.content # <<>> /\ ~EndsWith(arg.content, <<NL>>)
       \/ op = "diff_apply_hunks" /\ EndsWith(arg.content, <<NL>>)


-----------------------------------------------------------------------------
(* Claims about the hunk loop of a file *)

Ascending(seq) == \A a, b \in 1..Len(seq) : a < b => seq[a] < seq[b]

Range(seq) == {seq[a] : a \in 1..Len(seq)}

\* File change k found a text file, read it and tried its hunks.
HunkLoopDone(k) ==
    /\ ret.lines[k].text \in {"applied", "hunks_failed", "write_error"}
    /\ FileAt(log[NthStart(k)][2], NthStart(k)).kind = "text"

\* The text hunk i is tried on: what the last of the applied hunks before it
\* made of the text it was tried on, the original when none applied before it.
RECURSIVE InputOf(_, _, _, _)
InputOf(original, hunks, applied, i) ==
    IF {j \in applied : j < i} = {} THEN original
    ELSE LET last == CHOOSE j \in applied : j < i /\ \A m \in applied : m < i => m <= j
         IN  ApplyHunkToContent(InputOf(original, hunks, applied, last), hunks[last]).content

\* Every hunk is among the applied ones exactly when it applies to the text
\* the applied hunks before it left.
ThreadedThroughFailures(original, hunks, applied) ==
    \A i \in 1..Len(hunks) :
        i \in applied <=> ApplyHunkToContent(InputOf(original, hunks, applied, i), hunks[i]).success

\* The lists of file change k: all hunks tried, each in one list, in order.
\* A result with a failed hunk carries the two lists; one of a file that was
\* written carries the count of the applied hunks, which is then n.
HunkListsComplete(k) ==
    \A result \in {ret.results[k].result} :
        /\ result.text = "hunks_failed" =>
              /\ Ascending(result.applied_hunks)
              /\ Ascending(result.failed_hunks)
              /\ Range(result.applied_hunks) \cap Range(result.failed_hunks) = {}
              /\ Range(result.applied_hunks) \cup Range(result.failed_hunks)
                    = 1..log[NthStart(k)][3]
        /\ result.text = "applied" => result.applied_hunks = log[NthStart(k)][3]

\* File change k has several hunks, and one of them failed.
FailedAmongSeveral(k) ==
    /\ ret.lines[k].text = "hunks_failed"
    /\ Len(ret.results[k].result.applied_hunks) + Len(ret.results[k].result.failed_hunks) >= 2
    /\ HunkLoopDone(k)

\* In every file change with several hunks and a failed one, each hunk was
\* tried on the text the last applied hunk before it left.
FailuresPassedOver(patches) ==
    \A k \in 1..Len(ret.lines) :
        FailedAmongSeveral(k) =>
            ThreadedThroughFailures(ContentRead(FileAt(log[NthStart(k)][2], NthStart(k))),
                                    patches[k].hunks,
                                    Range(ret.results[k].result.applied_hunks))

\* C28 as stated: for the n hunks of an existing readable file all n are
\* tried, a hunk after a failed one on the text the last successful hunk
\* left; the applied and the failed numbers are ascending, disjoint and
\* together 1..n; the file result is a success exactly when no hunk failed.
C28_AllHunksTried ==
    op = "apply_patch" /\ ret.kind = "summary" =>
        /\ \A k \in 1..Len(ret.lines) :
              HunkLoopDone(k) =>
                  /\ HunkListsComplete(k)
                  /\ ret.lines[k].ok <=> ret.lines[k].failed_hunks = <<>>
        /\ (\E k \in 1..Len(ret.lines) : FailedAmongSeveral(k)) =>
              \A patches \in {ParseUnifiedDiff(arg.patch)} : FailuresPassedOver(patches)

\* C28 as amended: the same, the file result being a success exactly when no
\* hunk failed and the file could be written.
C28_AllHunksTriedAndWritten ==
    op = "apply_patch" /\ ret.kind = "summary" =>
        /\ \A k \in 1..Len(ret.lines) :
              HunkLoopDone(k) =>
                  /\ HunkListsComplete(k)
                  /\ ret.lines[k].ok <=>
                        /\ ret.lines[k].failed_hunks = <<>>
                        /\ \E j \in NthStart(k)..SegmentEnd(k) : log[j][1] = "write"
        /\ (\E k \in 1..Len(ret.lines) : FailedAmongSeveral(k)) =>
              \A patches \in {ParseUnifiedDiff(arg.patch)} : FailuresPassedOver(patches)

\* Three hunks of which the first applies and the others fail, the last on
\* the line the first one moved; two hunks of which the second applies after
\* the first failed.
C28_Witness ==
    /\ op = "apply_patch" /\ ret.kind = "summary"
    /\ \E k \in 1..Len(ret.lines) :
          /\ HunkLoopDone(k)
          /\ ret.lines[k].text = "hunks_failed"
          /\ \/ /\ ret.results[k].result.applied_hunks = <<1>>
                /\ ret.results[k].result.failed_hunks = <<2, 3>>
             \/ /\ ret.results[k].result.applied_hunks = <<2>>
                /\ ret.results[k].result.failed_hunks = <<1>>


-----------------------------------------------------------------------------
(* Claims about an old_string that an earlier edit removed *)

\* The second of two edits asks for a string the file has and the first edit
\* leaves no occurrence of; the batch passed validation.
VanishedOldString ==
    /\ EditsTried
    /\ Len(arg.edits) = 2
    /\ EditTarget \in DOMAIN pre.files
    /\ arg.edits[2].old_string # <<>>
    /\ Occurs(EditStart, arg.edits[2].old_string)
    /\ ~AfterFirstEdit.raised
    /\ ~Occurs(AfterFirstEdit.new_content, arg.edits[2].old_string)

\* C29: an edit whose old_string an earlier edit removed from the content,
\* the original having it, fails the whole call when its replace_all is false;
\* with replace_all true it never fails: it is reported as applied with 0
\* occurrences and the file is written.
C29_VanishedOldString ==
    VanishedOldString =>
        IF arg.edits[2].replace_all
        THEN /\ ret.kind = "summary"
             /\ ret.details[2] = [edit_index |-> 2, occurrences |-> 0]
             /\ \E j \in 1..Len(log) : log[j][1] = "write" /\ log[j][2] = EditTarget
             /\ FileNow(EditTarget) = TextFile(AfterFirstEdit.new_content)
        ELSE /\ ret = EditError("edit_failed", 2)
             /\ WriteAttempts(log) = <<>>
             /\ files = pre.files


-----------------------------------------------------------------------------------------------------------------------------------------------------
(* Specification of the agent: the runs of Agent.run on one agent, each taken
   from one point where it hands control back to the event loop to the next,
   and the calls made on the agent meanwhile *)

MaxSteps == 2
MaxRuns == 2
MaxAdded == 1
MaxToolResponses == 2

Runs == 1..MaxRuns

\* Python's None, where a text can stand.
None == "None"

\* The functions a caller registers as tools: one that returns, one that
\* raises an Exception, a coroutine function that awaits before it returns,
\* one that raises a BaseException that is no Exception.
ToolFuncs == {"echo", "fail", "sleep", "halt"}

\* The order in which the caller registers them.
RegisterOrder == <<"echo", "sleep", "fail", "halt">>

\* A tool call as chat_async hands it on.
ToolCall(id, name, arguments) ==
    [id |-> id, type |-> "function", function |-> [name |-> name, arguments |-> arguments]]

\* The tool calls of an LLM response: none, one or two; for each of the
\* tools; with arguments that are a JSON object, JSON but no object, or no
\* JSON.
ToolCallLists ==
    { <<>>,
      <<ToolCall("c1", "echo", "{}")>>,
      <<ToolCall("c1", "fail", "{}")>>,
      <<ToolCall("c1", "sleep", "{}")>>,
      <<ToolCall("c1", "halt", "{}")>>,
      <<ToolCall("c1", "echo", "{")>>,
      <<ToolCall("c1", "echo", "[]"), ToolCall("c2", "fail", "{}")>>,
      <<ToolCall("c1", "echo", "{}"), ToolCall("c2", "echo", "{")>> }

\* The message of a response: a final answer with a text, an empty text or
\* none, or tool calls.
LLMMessages ==
    {[role |-> "assistant", content |-> content, tool_calls |-> <<>>] :
        content \in {"content", "", None}}
    \cup {[role |-> "assistant", content |-> None, tool_calls |-> tool_calls] :
            tool_calls \in ToolCallLists \ {<<>>}}

\* The assistant messages with tool calls in a history.
ToolResponses(history) ==
    Cardinality({j \in 1..Len(history) : "tool_calls" \in DOMAIN history[j]})

\* What the LLM answers to a call, the history being what it is: any of the
\* messages, a final answer once it has asked for tools MaxToolResponses
\* times.
LLMResponses(history) ==
    IF ToolResponses(history) < MaxToolResponses THEN LLMMessages
    ELSE {message \in LLMMessages : message.tool_calls = <<>>}

\* The messages a caller adds with add_message: role, content and the other
\* attributes.
AddedMessages ==
    { [role |-> "tool", content |-> "x", kwargs |-> [tool_call_id |-> "zz"]],
      [role |-> "user", content |-> "note", kwargs |-> <<>>] }

\* add_message(role, content, **kwargs): the history with the message at its end.
AddMessage(history, role, content, kwargs) ==
    Append(history, kwargs @@ [role |-> role, content |-> content])

\* message.get("content") or None
ContentOrNone(message) ==
    IF message.content \in {"", None} THEN None ELSE message.content

\* assistant_msg: role and content, and the tool calls when there are some.
AssistantMessage(message) ==
    IF message.tool_calls # <<>>
    THEN [role |-> message.role, content |-> ContentOrNone(message),
          tool_calls |-> message.tool_calls]
    ELSE [role |-> message.role, content |-> ContentOrNone(message)]

\* json.loads on the argument texts: a dict, a list, or JSONDecodeError.
JsonLoads(text) ==
    IF text = "{}" THEN [raised |-> FALSE, value |-> "dict"]
    ELSE IF text = "[]" THEN [raised |-> FALSE, value |-> "list"]
    ELSE [raised |-> TRUE, value |-> None]

\* await ToolRegistry.execute_tool(name, arguments) on the registry `tools`,
\* up to the point where it returns, raises or hands control to the event
\* loop: ValueError for a name that is not registered, TypeError from
\* func(**arguments) for arguments that are no mapping, else what the
\* function does.
ExecuteTool(tools, name, arguments) ==
    IF name \notin tools THEN [kind |-> "exception", value |-> "not_registered"]
    ELSE IF arguments # "dict" THEN [kind |-> "exception", value |-> "type_error"]
    ELSE IF name = "fail" THEN [kind |-> "exception", value |-> "tool_error"]
    ELSE IF name = "halt" THEN [kind |-> "base_exception", value |-> "halt"]
    ELSE IF name = "sleep" THEN [kind |-> "awaiting", value |-> "result"]
    ELSE [kind |-> "returned", value |-> "result"]

\* The tool message for a call: the result as text, or the error message.
ToolMessage(tool_call, executed) ==
    [role |-> "tool",
     content |-> IF executed.kind = "exception"
                 THEN <<"execution_error", tool_call.function.name, executed.value>>
                 ELSE <<"result", executed.value>>,
     tool_call_id |-> tool_call.id]

\* A run that was not called yet.
NewRun ==
    [pc |-> "new", step |-> 0, calls |-> <<>>, next |-> 1, asst |-> 0,
     result |-> "none", value |-> None]

\* No run is executing: each is not called yet, over, or waits in an await
\* (for the answer of the LLM at agent.py:137, for a tool at agent.py:168).
\* The event loop runs one piece of code at a time, so a call on the agent
\* and the resumption of a run happen only then.
Free == \A r \in Runs : ret[r].pc \notin {"top", "tools"}

\* A new agent: the history holds the system prompt, the registry is empty,
\* max_steps is what the constructor was given.  pre counts the calls made on
\* the agent; of a run, ret has the place it is at, its local variables and
\* the position `asst` of the assistant message it appended last, and arg
\* what it gave its last LLM call: tool_choice and the first `sent` messages
\* of the history.
InitAgent ==
    /\ op = "idle"
    /\ arg = [r \in Runs |-> [tool_choice |-> "none", sent |-> 0]]
    /\ ret = [r \in Runs |-> NewRun]
    /\ log = <<[role |-> "system", content |-> "prompt"]>>
    /\ files = <<>>
    /\ dirs = {}
    /\ \E max_steps \in 0..MaxSteps : env = [max_steps |-> max_steps, tools |-> {}]
    /\ pre = [runs |-> 0, added |-> 0]

\* register_tool(func): the registry has the tool from then on.
RegisterTool ==
    /\ Free
    /\ Cardinality(env.tools) < Len(RegisterOrder)
    /\ \E func \in {RegisterOrder[Cardinality(env.tools) + 1]} :
          env' = [env EXCEPT !.tools = @ \cup {func}]
    /\ op' = "agent"
    /\ UNCHANGED <<arg, ret, log, files, dirs, pre>>

\* add_message(...) called on the agent by its user.
AddMessageCall ==
    /\ Free
    /\ pre.added < MaxAdded
    /\ \E m \in AddedMessages : log' = AddMessage(log, m.role, m.content, m.kwargs)
    /\ pre' = [pre EXCEPT !.added = @ + 1]
    /\ op' = "agent"
    /\ UNCHANGED <<arg, ret, files, dirs, env>>

\* run(user_input) up to the loop: on a new agent, after an earlier run, or
\* while an earlier run waits in an await.
RunStart(r) ==
    /\ Free
    /\ r = pre.runs + 1
    /\ ret[r].pc = "new"
    /\ log' = AddMessage(log, "user", "input", <<>>)
    /\ pre' = [pre EXCEPT !.runs = r]
    /\ ret' = [ret EXCEPT ![r].pc = "top"]
    /\ op' = "agent"
    /\ UNCHANGED <<arg, files, dirs, env>>

\* The loop is left after max_steps passes.
MaxStepsReached(r) ==
    /\ ret[r].pc = "top"
    /\ ret[r].step >= env.max_steps
    /\ ret' = [ret EXCEPT ![r].pc = "done", ![r].result = "max_steps"]
    /\ op' = "agent"
    /\ UNCHANGED <<arg, log, files, dirs, env, pre>>

\* One pass of the while loop up to the await of the LLM call: the tools are
\* taken from the registry and the call is made with the history as it is.
LLMCall(r) ==
    /\ ret[r].pc = "top"
    /\ ret[r].step < env.max_steps
    /\ ret' = [ret EXCEPT ![r].pc = "llm_wait", ![r].step = @ + 1]
    /\ arg' = [arg EXCEPT ![r] = [tool_choice |-> IF env.tools # {} THEN "auto" ELSE "none",
                                  sent |-> Len(log)]]
    /\ op' = "agent"
    /\ UNCHANGED <<log, files, dirs, env, pre>>

\* The response has a message: it is appended; run returns its content when
\* it has no tool calls.
LLMAnswered(r, message) ==
    /\ log' = Append(log, AssistantMessage(message))
    /\ ret' = IF message.tool_calls = <<>>
              THEN [ret EXCEPT ![r].pc = "done", ![r].asst = Len(log) + 1,
                               ![r].result = "answer", ![r].value = message.content]
              ELSE [ret EXCEPT ![r].pc = "tools", ![r].asst = Len(log) + 1,
                               ![r].calls = message.tool_calls, ![r].next = 1]

\* The LLM call is over and run goes on.  chat_async raises (a response
\* without choices): run returns the error text.  The API call raises inside
\* chat_async, which returns no choices: response["choices"][0] raises
\* IndexError out of run.  Or the response has a message.
LLMStep(r) ==
    /\ Free
    /\ ret[r].pc = "llm_wait"
    /\ \/ /\ ret' = [ret EXCEPT ![r].pc = "done", ![r].result = "llm_error"]
          /\ UNCHANGED log
       \/ /\ ret' = [ret EXCEPT ![r].pc = "raised", ![r].result = "index_error"]
          /\ UNCHANGED log
       \/ \E message \in LLMResponses(log) : LLMAnswered(r, message)
    /\ op' = "agent"
    /\ UNCHANGED <<arg, files, dirs, env, pre>>

\* The tool call is answered: its tool message is appended and the loop over
\* the tool calls goes on, or the while loop after the last of them.
ToolExecuted(r, executed) ==
    /\ log' = Append(log, ToolMessage(ret[r].calls[ret[r].next], executed))
    /\ ret' = [ret EXCEPT ![r].next = @ + 1,
                          ![r].pc = IF ret[r].next = Len(ret[r].calls) THEN "top" ELSE "tools"]

\* One pass of the loop over the tool calls: json.loads of the arguments,
\* outside the try, then the execution inside it.  The tool returns or
\* raises an Exception, and the tool message is appended; it awaits, and run
\* waits; it raises a BaseException that is no Exception, which no except
\* of run catches.
ToolStep(r) ==
    /\ ret[r].pc = "tools"
    /\ \E loaded \in {JsonLoads(ret[r].calls[ret[r].next].function.arguments)} :
          IF loaded.raised
          THEN /\ ret' = [ret EXCEPT ![r].pc = "raised", ![r].result = "json_error"]
               /\ UNCHANGED log
          ELSE \E executed \in {ExecuteTool(env.tools,
                                            ret[r].calls[ret[r].next].function.name,
                                            loaded.value)} :
                  IF executed.kind = "awaiting"
                  THEN /\ ret' = [ret EXCEPT ![r].pc = "tool_wait"]
                       /\ UNCHANGED log
                  ELSE IF executed.kind = "base_exception"
                  THEN /\ ret' = [ret EXCEPT ![r].pc = "raised", ![r].result = "base_exception"]
                       /\ UNCHANGED log
                  ELSE ToolExecuted(r, executed)
    /\ op' = "agent"
    /\ UNCHANGED <<arg, files, dirs, env, pre>>

\* The tool that was awaited returns: run goes on with its tool message.
ToolResumed(r) ==
    /\ Free
    /\ ret[r].pc = "tool_wait"
    /\ ToolExecuted(r, [kind |-> "returned", value |-> "result"])
    /\ op' = "agent"
    /\ UNCHANGED <<arg, files, dirs, env, pre>>

\* The task of a run is cancelled while the run waits (Task.cancel(), the
\* timeout of asyncio.wait_for): CancelledError, which is no Exception, is
\* raised at the await and out of run.
Cancel(r) ==
    /\ Free
    /\ ret[r].pc \in {"llm_wait", "tool_wait"}
    /\ ret' = [ret EXCEPT ![r].pc = "raised", ![r].result = "cancelled"]
    /\ op' = "agent"
    /\ UNCHANGED <<arg, log, files, dirs, env, pre>>

NextAgent ==
    \/ RegisterTool
    \/ AddMessageCall
    \/ \E r \in Runs : RunStart(r)
    \/ \E r \in Runs : MaxStepsReached(r)
    \/ \E r \in Runs : LLMCall(r)
    \/ \E r \in Runs : LLMStep(r)
    \/ \E r \in Runs : ToolStep(r)
    \/ \E r \in Runs : ToolResumed(r)
    \/ \E r \in Runs : Cancel(r)

SpecAgent == InitAgent /\ [][NextAgent]_vars

\* Claims about the history of the agent

\* The tool calls of the message at position j of the history.
CallsOf(j) == Get(log[j], "tool_calls", <<>>)

\* The assistant message at position j of the history is followed by one
\* tool message for each of its tool calls, in their order and with their ids.
Answered(j) ==
    /\ Len(log) >= j + Len(CallsOf(j))
    /\ \A i \in 1..Len(CallsOf(j)) :
          /\ log[j + i].role = "tool"
          /\ log[j + i].tool_call_id = CallsOf(j)[i].id

\* C30: before every LLM call and at the end of run, the assistant message
\* run has appended last, with k tool calls, is followed by exactly k tool
\* messages in the order of the calls, each with the tool_call_id of its
\* call; also when a tool raises, is not registered, or gets arguments that
\* are not JSON.  (Before its LLM call a run is at the top of its loop, and
\* the history ends with what it has appended.)
C30_ToolCallsAnswered ==
    op = "agent" =>
        \A r \in Runs :
            ret[r].asst # 0 =>
                /\ ret[r].pc \in {"top", "done", "raised"} => Answered(ret[r].asst)
                /\ ret[r].pc = "top" => Len(log) = ret[r].asst + Len(CallsOf(ret[r].asst))

====
